---------------------------- MODULE Spec2Model ----------------------------
(***************************************************************************)
(* The OCR text reconstruction passes of PDF-to-Epub (text-processing/).   *)
(*                                                                         *)
(* A text is a sequence of one-character strings.  Each pass is a pure     *)
(* function from text to text; it is modelled by a specification whose    *)
(* initial states draw the input from a bounded set and whose actions      *)
(* follow the statements of the pass.  Indices are 1-based; the Python     *)
(* value None of an index is 0.                                            *)
(*                                                                         *)
(*   SpecBlocks     remove_header_footer_blocks   (Step1_ocr_cleanup_v11)  *)
(*   SpecFootnotes  strip_footnote_numbers        (Step2_formatting_v14)   *)
(*   SpecDialogue   dialogue_paragraphing         (Step2_formatting_v14)   *)
(*   SpecLoneQuote  fix_lone_quote_lines          (Step2_formatting_v14)   *)
(*   SpecReflow     reflow                        (Step2_formatting_v14)   *)
(***************************************************************************)
EXTENDS Integers, Sequences, FiniteSets, TLC

VARIABLES
    text,                  \* the argument of the pass under check
    lines,                 \* text.splitlines(), as the pass holds it
    i,                     \* loop index of the pass
    pc,                    \* position in the pass
    protected_chapter_idx, \* remove_header_footer_blocks: first chapter line
    to_delete,             \* remove_header_footer_blocks: accepted spans
    visited,               \* remove_header_footer_blocks: lines already taken
    line,                  \* strip_footnote_numbers: the line being rewritten
    log,                   \* the diagnostic counters the pass records
    out,                   \* the value the pass returns
    out2                   \* reflow: the value of a second application

vars == <<text, lines, i, pc, protected_chapter_idx, to_delete, visited,
          line, log, out, out2>>

NoLog == [n \in {} |-> 0]

(***************************************************************************)
(* Generic sequence helpers.                                               *)
(***************************************************************************)
Max2(a, b) == IF a >= b THEN a ELSE b

\* s[a..b], empty when a > b
Slice(s, a, b) == IF a > b THEN <<>> ELSE SubSeq(s, a, b)

\* the sequences over S of length 0..n
SeqsUpTo(S, n) == UNION {[1..k -> S] : k \in 0..n}

RECURSIVE Flatten(_)
Flatten(ss) == IF ss = <<>> THEN <<>> ELSE Head(ss) \o Flatten(Tail(ss))

(***************************************************************************)
(* remove_header_footer_blocks (Step1_ocr_cleanup_v11.py).                 *)
(*                                                                         *)
(* The document is held as the list text.splitlines(); each line is one of *)
(* the representative lines of LineUniverse and every regular expression   *)
(* of the function is the set of representative lines it matches, among   *)
(* the lines of LineUniverse and of ProseUniverse.                         *)
(***************************************************************************)
MaxLines == 4

LineUniverse ==
    {"", "12", "\"", "VOLUME 1", "Volume 1", "History of My Life",
     "Chapter iv", "CHAPTER IV", "He went home.", "LONDON"}

\* r'^\s*chapter\s+[ivxlcdm]+[.¹...]*\s*$', re.IGNORECASE
chap_line_ci(s) == s \in {"Chapter iv", "CHAPTER IV"}
\* r"(?i)\bvolume\b"
vol_re(s) ==
    s \in {"VOLUME 1", "Volume 1", "he read the volume.", "CHAPTER VOLUME"}
\* r"(?i)\bhistory\s+of\s+my\s+life\b"
hist_re(s) == s \in {"History of My Life"}
\* r"(?i)\bchapter\b"
chapter_inline_re(s) ==
    s \in {"Chapter iv", "CHAPTER IV", "the chapter ended.", "CHAPTER VOLUME"}
\* r"^\s*[•·]\s*$"
bullet_re(s) == s \in {}
\* r'^\s*[\.,;:!?—–\-\"“”„‟’\']+\s*$'
punct_only_re(s) == s \in {"\""}
\* r'^\s*[\"\'“”„‟’]+\s*$'
quote_only_re(s) == s \in {"\""}
\* r"^\s*(?:\d{1,4}|[IVXLCDM]+)\.?\s*$"
numeric_only_re(s) == s \in {"12"}
\* r"^\s*CHAPTER\s+(?:[IVXLCDM]+|[A-Z0-9]+)\s*$"
allcaps_chapter_heading_re(s) == s \in {"CHAPTER IV", "CHAPTER VOLUME"}
\* r"[a-zà-öø-ÿ]"
has_lowercase(s) ==
    s \in {"Volume 1", "History of My Life", "Chapter iv", "He went home.",
           "he read the volume.", "the chapter ended."}
\* r"[A-Za-z].*[\.!?;:]\s*$"
letter_then_terminal(s) ==
    s \in {"He went home.", "he read the volume.", "the chapter ended."}
\* len(re.findall(r"[A-Za-zÀ-ÖØ-öø-ÿ]+", s)) >= 2
two_words(s) ==
    s \in {"History of My Life", "Chapter iv", "CHAPTER IV", "He went home.",
           "he read the volume.", "the chapter ended.", "CHAPTER VOLUME"}

\* a chapter pattern that is matched without re.IGNORECASE finds no heading
find_first_case_sensitive(ls) ==
    LET hits == {k \in 1..Len(ls) : ls[k] \in {"chapter iv"}}
    IN  IF hits = {} THEN 0 ELSE CHOOSE k \in hits : \A m \in hits : k <= m

\* _find_first_chapter_heading_idx: the first matching index, or None (0)
find_first_chapter_heading_idx(ls) ==
    LET hits == {k \in 1..Len(ls) : chap_line_ci(ls[k])}
    IN  IF hits = {} THEN 0 ELSE CHOOSE k \in hits : \A m \in hits : k <= m

is_headerish(ls, p, idx) ==
    IF p # 0 /\ idx = p THEN FALSE
    ELSE LET s == ls[idx]
         IN  \/ s = ""
             \/ bullet_re(s) \/ punct_only_re(s) \/ quote_only_re(s)
             \/ numeric_only_re(s)
             \/ vol_re(s) \/ hist_re(s)
             \/ (chapter_inline_re(s) /\ ~allcaps_chapter_heading_re(s))

is_body_line(ls, idx) ==
    LET s == ls[idx]
    IN  IF s = "" THEN FALSE
        ELSE \/ allcaps_chapter_heading_re(s)
             \/ has_lowercase(s)
             \/ letter_then_terminal(s)
             \/ two_words(s)

\* the condition of the two expansion loops, for the candidate line k
can_expand(ls, p, k) ==
    /\ k # p
    /\ is_headerish(ls, p, k)
    /\ ~allcaps_chapter_heading_re(ls[k])

RECURSIVE expand_up(_, _, _)
expand_up(ls, p, lo) ==
    IF lo - 1 >= 1 /\ can_expand(ls, p, lo - 1)
    THEN expand_up(ls, p, lo - 1) ELSE lo

RECURSIVE expand_down(_, _, _)
expand_down(ls, p, hi) ==
    IF hi + 1 <= Len(ls) /\ can_expand(ls, p, hi + 1)
    THEN expand_down(ls, p, hi + 1) ELSE hi

\* the test of absorb_up / absorb_down on line k
absorbable(ls, p, k) ==
    /\ ls[k] # ""
    /\ k # p
    /\ (numeric_only_re(ls[k]) \/ punct_only_re(ls[k]) \/ quote_only_re(ls[k]))

RECURSIVE absorb_up_from(_, _, _, _, _)
absorb_up_from(ls, p, lo0, k, taken) ==
    IF k >= 1 /\ taken < 3 /\ absorbable(ls, p, k)
    THEN absorb_up_from(ls, p, k, k - 1, taken + 1) ELSE lo0

absorb_up(ls, p, lo0) == absorb_up_from(ls, p, lo0, lo0 - 1, 0)

RECURSIVE absorb_down_from(_, _, _, _, _)
absorb_down_from(ls, p, hi0, k, taken) ==
    IF k <= Len(ls) /\ taken < 3 /\ absorbable(ls, p, k)
    THEN absorb_down_from(ls, p, k, k + 1, taken + 1) ELSE hi0

absorb_down(ls, p, hi0) == absorb_down_from(ls, p, hi0, hi0 + 1, 0)

\* an upper side that is accepted whatever stands above the span
lo_ok_always(ls, lo) == TRUE

\* lo_ok / hi_ok: the span touches the document edge or a body line
lo_ok(ls, lo) == lo = 1 \/ (lo - 1 >= 1 /\ is_body_line(ls, lo - 1))
hi_ok(ls, hi) == hi = Len(ls) \/ (hi + 1 <= Len(ls) /\ is_body_line(ls, hi + 1))

\* the span after the protected heading, if inside, has been cut out
shrink(p, lo, hi) ==
    IF p # 0 /\ lo <= p /\ p <= hi
    THEN IF p - lo > hi - p THEN <<p + 1, hi>> ELSE <<lo, p - 1>>
    ELSE <<lo, hi>>

\* the candidate span of cue line k: expanded, absorbed, shrunk
candidate_span(ls, p, k) ==
    LET lo == absorb_up(ls, p, expand_up(ls, p, k))
        hi == absorb_down(ls, p, expand_down(ls, p, k))
    IN  [span |-> shrink(p, lo, hi),
         ok   |-> lo_ok(ls, lo) \/ hi_ok(ls, hi)]

span_accepted(c) == c.span[1] <= c.span[2] /\ c.ok

\* to_delete.sort()
RECURSIVE sorted_spans(_)
sorted_spans(S) ==
    IF S = {} THEN <<>>
    ELSE LET m == CHOOSE x \in S : \A y \in S :
                      x[1] < y[1] \/ (x[1] = y[1] /\ x[2] <= y[2])
         IN  <<m>> \o sorted_spans(S \ {m})

\* the merge loop over the sorted spans, cur being (cur_lo, cur_hi)
RECURSIVE merge_from(_, _)
merge_from(cur, rest) ==
    IF rest = <<>> THEN <<cur>>
    ELSE LET nx == Head(rest)
         IN  IF nx[1] <= cur[2] + 1
             THEN merge_from(<<cur[1], Max2(cur[2], nx[2])>>, Tail(rest))
             ELSE <<cur>> \o merge_from(nx, Tail(rest))

merged_spans(td) ==
    LET srt == sorted_spans({td[k] : k \in 1..Len(td)})
    IN  merge_from(Head(srt), Tail(srt))

delset_of(merged) ==
    UNION {merged[k][1]..merged[k][2] : k \in 1..Len(merged)}

\* [ln for idx, ln in enumerate(lines) if idx not in delset]
RECURSIVE keep_from(_, _, _)
keep_from(ls, del, k) ==
    IF k > Len(ls) THEN <<>>
    ELSE (IF k \in del THEN <<>> ELSE <<ls[k]>>) \o keep_from(ls, del, k + 1)

InitBlocks ==
    /\ lines \in SeqsUpTo(LineUniverse, MaxLines)
    /\ protected_chapter_idx = find_first_chapter_heading_idx(lines)
    /\ i = 1
    /\ pc = "scan"
    /\ to_delete = <<>>
    /\ visited = {}
    /\ text = <<>> /\ line = <<>> /\ log = NoLog
    /\ out = <<>> /\ out2 = <<>>

\* one iteration of `for i in range(n)` that takes no span
SkipLine ==
    /\ pc = "scan" /\ i <= Len(lines)
    /\ \/ i \in visited
       \/ ~(vol_re(lines[i]) \/ hist_re(lines[i]))
       \/ ~span_accepted(candidate_span(lines, protected_chapter_idx, i))
    /\ i' = i + 1
    /\ UNCHANGED <<text, lines, pc, protected_chapter_idx, to_delete, visited,
                   line, log, out, out2>>

\* one iteration on a cue line whose span is accepted
TakeSpan ==
    /\ pc = "scan" /\ i <= Len(lines)
    /\ i \notin visited
    /\ vol_re(lines[i]) \/ hist_re(lines[i])
    /\ LET c == candidate_span(lines, protected_chapter_idx, i)
       IN  /\ span_accepted(c)
           /\ to_delete' = Append(to_delete, c.span)
           /\ visited' = visited \cup (c.span[1]..c.span[2])
    /\ i' = i + 1
    /\ UNCHANGED <<text, lines, pc, protected_chapter_idx, line, log, out, out2>>

\* `if not to_delete: ... return text`
ReturnUnchanged ==
    /\ pc = "scan" /\ i > Len(lines)
    /\ to_delete = <<>>
    /\ out' = lines
    /\ log' = [header_footer_blocks_removed |-> 0]
    /\ pc' = "done"
    /\ UNCHANGED <<text, lines, i, protected_chapter_idx, to_delete, visited,
                   line, out2>>

\* sort, merge, delete, join
DeleteBlocks ==
    /\ pc = "scan" /\ i > Len(lines)
    /\ to_delete # <<>>
    /\ LET merged == merged_spans(to_delete)
       IN  /\ out' = keep_from(lines, delset_of(merged), 1)
           /\ log' = [header_footer_blocks_removed |-> Len(merged)]
    /\ pc' = "done"
    /\ UNCHANGED <<text, lines, i, protected_chapter_idx, to_delete, visited,
                   line, out2>>

NextBlocks == SkipLine \/ TakeSpan \/ ReturnUnchanged \/ DeleteBlocks

SpecBlocks == InitBlocks /\ [][NextBlocks]_vars

(***************************************************************************)
(* Properties of remove_header_footer_blocks.                              *)
(***************************************************************************)
\* the indices of the lines the finished run has deleted
Deleted == IF to_delete = <<>> THEN {} ELSE delset_of(merged_spans(to_delete))

\* the first line of the document that is a CHAPTER <roman numeral> heading
\* in any letter case, 0 when there is none
FirstChapterLine ==
    IF \E k \in 1..Len(lines) : chap_line_ci(lines[k])
    THEN CHOOSE k \in 1..Len(lines) :
             /\ chap_line_ci(lines[k])
             /\ \A m \in 1..(k - 1) : ~chap_line_ci(lines[m])
    ELSE 0

NoBodyLine == \A k \in 1..Len(lines) : ~is_body_line(lines, k)

C2_OnlyNextToBody ==
    pc = "done" =>
        /\ \A k \in 1..Len(to_delete) :
               LET lo == to_delete[k][1]
                   hi == to_delete[k][2]
               IN  \/ (lo > 1 /\ is_body_line(lines, lo - 1))
                   \/ (hi < Len(lines) /\ is_body_line(lines, hi + 1))
        /\ (NoBodyLine => out = lines)

\* C2 amended: a span is deleted only if one of its sides is a document edge
\* or an adjacent body line outside it; in a document with no body line
\* every deleted line lies in a span that reaches the first or the last line.
C2_EdgeOrBody ==
    pc = "done" =>
        /\ \A k \in 1..Len(to_delete) :
               LET lo == to_delete[k][1]
                   hi == to_delete[k][2]
               IN  \/ lo = 1 \/ hi = Len(lines)
                   \/ (lo > 1 /\ is_body_line(lines, lo - 1))
                   \/ (hi < Len(lines) /\ is_body_line(lines, hi + 1))
        /\ (NoBodyLine =>
               \A d \in Deleted : \E k \in 1..Len(to_delete) :
                   /\ d \in to_delete[k][1]..to_delete[k][2]
                   /\ to_delete[k][1] = 1 \/ to_delete[k][2] = Len(lines))

\* C2 witness: a finished run on a document with no body line that deleted
\* lines, next to a line that is neither a running head nor a body line.
C2_Witness ==
    /\ pc = "done" /\ NoBodyLine /\ Deleted # {}
    /\ \E k \in 1..Len(lines) : lines[k] = "LONDON"

(***************************************************************************)
(* Character classes of the regular expressions (the ASCII part of each).  *)
(***************************************************************************)
Digit == {"0", "1", "2", "3", "4", "5", "6", "7", "8", "9"}
Lower == {"a", "b", "c", "d", "e", "f", "g", "h", "i", "j", "k", "l", "m",
          "n", "o", "p", "q", "r", "s", "t", "u", "v", "w", "x", "y", "z"}
Upper == {"A", "B", "C", "D", "E", "F", "G", "H", "I", "J", "K", "L", "M",
          "N", "O", "P", "Q", "R", "S", "T", "U", "V", "W", "X", "Y", "Z"}
Letter == Lower \cup Upper
\* \w
WordChar == Letter \cup Digit \cup {"_"}
\* \s
Space == {" ", "\t", "\n", "\r"}

\* s[p..] starts with the sequence w
StartsAt(s, p, w) ==
    /\ p + Len(w) - 1 <= Len(s)
    /\ \A k \in 1..Len(w) : s[p + k - 1] = w[k]

\* the first position >= p of s that holds no whitespace (Len(s)+1 if none)
RECURSIVE SkipSpace(_, _)
SkipSpace(s, p) ==
    IF p <= Len(s) /\ s[p] \in Space THEN SkipSpace(s, p + 1) ELSE p

(***************************************************************************)
(* strip_footnote_numbers (Step2_formatting_v14.py), on a text of one line *)
(* (the function rewrites each line of text.splitlines() on its own), with *)
(* the default money terms.  The three default terms that hold a non-ASCII *)
(* character are spelled by no input of the model and are left out.        *)
(***************************************************************************)
MaxPieces == 4

\* the pieces an input line is made of
FootnotePieces ==
    {<<"1">>, <<"1", "7", "8", "9">>, <<" ">>, <<",">>, <<".">>, <<"a">>,
     <<"s", "o", "u">>}

\* _parse_money_terms(""): the default set
money_terms ==
    {<<"c", "r", "o", "w", "n">>, <<"c", "r", "o", "w", "n", "s">>,
     <<"d", "o", "l", "l", "a", "r">>, <<"d", "o", "l", "l", "a", "r", "s">>,
     <<"d", "u", "c", "a", "t">>, <<"d", "u", "c", "a", "t", "s">>,
     <<"e", "s", "c", "u", "d", "o">>, <<"e", "s", "c", "u", "d", "o", "s">>,
     <<"f", "l", "o", "r", "i", "n">>, <<"f", "l", "o", "r", "i", "n", "s">>,
     <<"f", "r", "a", "n", "c">>, <<"f", "r", "a", "n", "c", "s">>,
     <<"g", "u", "i", "n", "e", "a">>, <<"g", "u", "i", "n", "e", "a", "s">>,
     <<"l", "i", "v", "r", "e">>, <<"l", "i", "v", "r", "e", "s">>,
     <<"l", "o", "u", "i", "s">>,
     <<"l", "o", "u", "i", "s", "-", "d", "o", "r">>,
     <<"m", "a", "r", "a", "v", "e", "d", "i">>,
     <<"m", "a", "r", "a", "v", "e", "d", "i", "s">>, <<"p", "e", "s", "o">>,
     <<"p", "e", "s", "o", "s">>, <<"p", "i", "s", "t", "o", "l", "e">>,
     <<"p", "i", "s", "t", "o", "l", "e", "s">>, <<"p", "o", "u", "n", "d">>,
     <<"p", "o", "u", "n", "d", "s">>, <<"r", "e", "a", "l">>,
     <<"r", "e", "a", "l", "e", "s">>, <<"r", "e", "a", "l", "s">>,
     <<"s", "e", "q", "u", "i", "n">>, <<"s", "e", "q", "u", "i", "n", "s">>,
     <<"s", "o", "u">>, <<"s", "o", "u", "s">>, <<"t", "a", "l", "e", "r">>,
     <<"t", "a", "l", "e", "r", "s">>, <<"t", "h", "a", "l", "e", "r">>,
     <<"t", "h", "a", "l", "e", "r", "s">>,
     <<"z", "e", "c", "c", "h", "i", "n", "i">>,
     <<"z", "e", "c", "c", "h", "i", "n", "o">>,
     <<"z", "e", "c", "c", "h", "i", "n", "s">>}

\* money_follow.search(rest), rest = ln[p..]: r'^\s*(?:<terms>)\b'
money_follow(ln, p) ==
    LET q == SkipSpace(ln, p)
    IN  \E t \in money_terms :
            /\ StartsAt(ln, q, t)
            /\ (q + Len(t) > Len(ln) \/ ln[q + Len(t)] \notin WordChar)

\* the class that may precede a standalone number
\* [\s,;:—\-\)\(\[\]“”"\' ]
StandaloneBefore == Space \cup {",", ";", ":", "-", ")", "(", "[", "]", "\"", "'"}
\* the class that may follow it  [\s,;:—\-\)\(\]\[“”"\'\.,!?]
StandaloneAfter == StandaloneBefore \cup {".", "!", "?"}

\* (?=($|[...])) at position p of the standalone pattern
look_standalone(ln, p) == p > Len(ln) \/ ln[p] \in StandaloneAfter
\* a lookahead that accepts every position
look_anything(ln, p) == TRUE

\* (?=($|[^\w])) at position p
look_nonword(ln, p) == p > Len(ln) \/ ln[p] \notin WordChar

\* (\d{1,3}) with no lookahead after it: the longest run of up to 3 digits
digits_no_look(ln, s, standalone) ==
    LET ks == {k \in 1..3 : s + k - 1 <= Len(ln)
                            /\ \A j \in s..(s + k - 1) : ln[j] \in Digit}
    IN  IF ks = {} THEN 0 ELSE CHOOSE k \in ks : \A m \in ks : m <= k

\* (\d{1,3})(?=...) at s: the number of digits matched, greedy, 0 for none
digits_then_look(ln, s, standalone) ==
    LET ks == {k \in 1..3 :
                  /\ s + k - 1 <= Len(ln)
                  /\ \A j \in s..(s + k - 1) : ln[j] \in Digit
                  /\ IF standalone THEN look_standalone(ln, s + k)
                                   ELSE look_nonword(ln, s + k)}
    IN  IF ks = {} THEN 0 ELSE CHOOSE k \in ks : \A m \in ks : m <= k

\* re.match(r'^\d{1,3}(st|nd|rd|th)$', num, re.IGNORECASE)
is_ordinal(num) ==
    \E k \in 1..3 :
        /\ Len(num) = k + 2
        /\ \A j \in 1..k : num[j] \in Digit
        /\ <<num[k + 1], num[k + 2]>> \in
               {<<a, b>> : a \in {"s", "S"}, b \in {"t", "T"}}
               \cup {<<a, b>> : a \in {"n", "N"}, b \in {"d", "D"}}
               \cup {<<a, b>> : a \in {"r", "R"}, b \in {"d", "D"}}
               \cup {<<a, b>> : a \in {"t", "T"}, b \in {"h", "H"}}

\* the standalone pattern at p: [from, to] is the match, g1 its group 1,
\* num its group 2, trail its group 3 (the character the lookahead saw)
match_standalone(ln, p) ==
    LET viaStart == IF p = 1 THEN digits_then_look(ln, 1, TRUE) ELSE 0
        viaClass == IF ln[p] \in StandaloneBefore
                    THEN digits_then_look(ln, p + 1, TRUE) ELSE 0
        s == IF viaStart > 0 THEN p ELSE p + 1
        k == IF viaStart > 0 THEN viaStart ELSE viaClass
    IN  [ok    |-> k > 0,
         to    |-> s + k - 1,
         g1    |-> IF viaStart > 0 THEN <<>> ELSE <<ln[p]>>,
         num   |-> Slice(ln, s, s + k - 1),
         trail |-> IF s + k > Len(ln) THEN <<>> ELSE <<ln[s + k]>>]

\* repl_standalone: the replacement text and whether the number was removed
repl_standalone(ln, m) ==
    IF is_ordinal(m.num) \/ money_follow(ln, m.to + 1)
    THEN [t |-> m.g1 \o m.num \o m.trail, n |-> 0]
    ELSE [t |-> m.g1 \o m.trail, n |-> 1]

\* re.sub of the standalone pattern over ln[p..]
RECURSIVE sub_standalone(_, _)
sub_standalone(ln, p) ==
    IF p > Len(ln) THEN [t |-> <<>>, n |-> 0]
    ELSE LET m == match_standalone(ln, p)
         IN  IF m.ok
             THEN LET r == repl_standalone(ln, m)
                      rest == sub_standalone(ln, m.to + 1)
                  IN  [t |-> r.t \o rest.t, n |-> r.n + rest.n]
             ELSE LET rest == sub_standalone(ln, p + 1)
                  IN  [t |-> <<ln[p]>> \o rest.t, n |-> rest.n]

\* r'[,:;]\s?(\d{1,3})(?=($|[^\w]))' at p
match_after_punct(ln, p) ==
    LET sp == IF p + 1 <= Len(ln) /\ ln[p + 1] \in Space THEN 1 ELSE 0
        k  == IF ln[p] \in {",", ":", ";"}
              THEN digits_then_look(ln, p + 1 + sp, FALSE) ELSE 0
    IN  [ok |-> k > 0, to |-> p + sp + k, keep |-> Slice(ln, p, p + sp)]

\* repl_after_punct: m.group(0) under the money guard, else m.group(0)
\* with num taken out
repl_after_punct(ln, p, m) ==
    IF money_follow(ln, m.to + 1)
    THEN [t |-> Slice(ln, p, m.to), n |-> 0]
    ELSE [t |-> m.keep, n |-> 1]

RECURSIVE sub_after_punct(_, _)
sub_after_punct(ln, p) ==
    IF p > Len(ln) THEN [t |-> <<>>, n |-> 0]
    ELSE LET m == match_after_punct(ln, p)
         IN  IF m.ok
             THEN LET r == repl_after_punct(ln, p, m)
                      rest == sub_after_punct(ln, m.to + 1)
                  IN  [t |-> r.t \o rest.t, n |-> r.n + rest.n]
             ELSE LET rest == sub_after_punct(ln, p + 1)
                  IN  [t |-> <<ln[p]>> \o rest.t, n |-> rest.n]

\* r'(?<=[A-Za-zÀ-ÖØ-öø-ÿ]|\.)(\d{1,3})(?=($|[^\w]))' at p: digits matched
match_glued(ln, p) ==
    IF p > 1 /\ (ln[p - 1] \in Letter \/ ln[p - 1] = ".")
    THEN digits_then_look(ln, p, FALSE) ELSE 0

\* re.sub with repl_glued, which has no money guard
RECURSIVE sub_glued(_, _)
sub_glued(ln, p) ==
    IF p > Len(ln) THEN [t |-> <<>>, n |-> 0]
    ELSE LET k == match_glued(ln, p)
         IN  IF k > 0
             THEN LET rest == sub_glued(ln, p + k)
                  IN  [t |-> rest.t, n |-> 1 + rest.n]
             ELSE LET rest == sub_glued(ln, p + 1)
                  IN  [t |-> <<ln[p]>> \o rest.t, n |-> rest.n]

InitFootnotes ==
    /\ text \in {Flatten(ps) : ps \in SeqsUpTo(FootnotePieces, MaxPieces)}
    /\ line = text
    /\ pc = "standalone"
    /\ log = [standalone |-> 0, after_punct |-> 0, glued_to_word |-> 0]
    /\ lines = <<>> /\ i = 0
    /\ protected_chapter_idx = 0 /\ to_delete = <<>> /\ visited = {}
    /\ out = <<>> /\ out2 = <<>>

\* line = re.sub(<standalone>, repl_standalone, line)
StandalonePass ==
    /\ pc = "standalone"
    /\ LET r == sub_standalone(line, 1)
       IN  /\ line' = r.t
           /\ log' = [log EXCEPT !.standalone = r.n]
    /\ pc' = "after_punct"
    /\ UNCHANGED <<text, lines, i, protected_chapter_idx, to_delete, visited,
                   out, out2>>

\* line = re.sub(<after punctuation>, repl_after_punct, line)
AfterPunctPass ==
    /\ pc = "after_punct"
    /\ LET r == sub_after_punct(line, 1)
       IN  /\ line' = r.t
           /\ log' = [log EXCEPT !.after_punct = r.n]
    /\ pc' = "glued"
    /\ UNCHANGED <<text, lines, i, protected_chapter_idx, to_delete, visited,
                   out, out2>>

\* line = re.sub(<glued>, repl_glued, line); lines[idx] = line; join
GluedPass ==
    /\ pc = "glued"
    /\ LET r == sub_glued(line, 1)
       IN  /\ line' = r.t
           /\ out' = r.t
           /\ log' = [log EXCEPT !.glued_to_word = r.n]
    /\ pc' = "done"
    /\ UNCHANGED <<text, lines, i, protected_chapter_idx, to_delete, visited,
                   out2>>

NextFootnotes == StandalonePass \/ AfterPunctPass \/ GluedPass

SpecFootnotes == InitFootnotes /\ [][NextFootnotes]_vars

(***************************************************************************)
(* Properties of strip_footnote_numbers.                                   *)
(***************************************************************************)
\* position p starts a maximal run of digits of s
IsRunStart(s, p) == s[p] \in Digit /\ (p = 1 \/ s[p - 1] \notin Digit)

RECURSIVE RunLen(_, _)
RunLen(s, p) == IF p <= Len(s) /\ s[p] \in Digit THEN 1 + RunLen(s, p + 1) ELSE 0

\* the maximal digit runs of s[p..], in order (p is no inner position of a run)
RECURSIVE DigitRunsFrom(_, _)
DigitRunsFrom(s, p) ==
    IF p > Len(s) THEN <<>>
    ELSE IF s[p] \in Digit
         THEN <<Slice(s, p, p + RunLen(s, p) - 1)>>
                  \o DigitRunsFrom(s, p + RunLen(s, p))
         ELSE DigitRunsFrom(s, p + 1)

DigitRuns(s) == DigitRunsFrom(s, 1)
IsYear(r) == Len(r) = 4
Years(s) == SelectSeq(DigitRuns(s), IsYear)
IsNonDigit(c) == c \notin Digit
NonDigits(s) == SelectSeq(s, IsNonDigit)

\* the runs of 1-3 digits of s that a money term follows after optional
\* whitespace, in order
RECURSIVE GuardedRunsFrom(_, _)
GuardedRunsFrom(s, p) ==
    IF p > Len(s) THEN <<>>
    ELSE IF s[p] \in Digit
         THEN LET k == RunLen(s, p)
              IN  (IF k <= 3 /\ money_follow(s, p + k)
                   THEN <<Slice(s, p, p + k - 1)>> ELSE <<>>)
                      \o GuardedRunsFrom(s, p + k)
         ELSE GuardedRunsFrom(s, p + 1)

GuardedRuns(s) == GuardedRunsFrom(s, 1)

\* a is b with zero or more elements left out
RECURSIVE IsSubseq(_, _)
IsSubseq(a, b) ==
    IF a = <<>> THEN TRUE
    ELSE IF b = <<>> THEN FALSE
    ELSE IF Head(a) = Head(b) THEN IsSubseq(Tail(a), Tail(b))
    ELSE IsSubseq(a, Tail(b))

\* every number of s is a run of 4 or more digits or a guarded amount
AllProtected(s) ==
    \A p \in 1..Len(s) :
        IsRunStart(s, p) => (RunLen(s, p) >= 4 \/ money_follow(s, p + RunLen(s, p)))

\* C3: every 4-digit year of the line is left untouched, whatever stands
\* around it, and a line whose only digits are one year is returned unchanged.
C3_YearsUntouched ==
    pc = "done" =>
        /\ Years(out) = Years(text)
        /\ (Len(DigitRuns(text)) = 1 /\ Len(Years(text)) = 1 => out = text)

\* C3 witness: a finished run on a line whose only number is a year glued
\* to a letter and followed by a space, where a shorter number is removed.
C3_Witness ==
    /\ pc = "done" /\ out = text
    /\ Len(DigitRuns(text)) = 1 /\ Len(Years(text)) = 1
    /\ \E p \in 2..Len(text) :
           /\ IsRunStart(text, p) /\ text[p - 1] \in Letter
           /\ p + 4 <= Len(text) /\ text[p + 4] = " "

\* C4 as stated: every run of 1-3 digits that a money term follows is kept,
\* in the standalone, after-punctuation and glued contexts alike: the
\* guarded amounts of the line are, in order, among the numbers of the output.
C4_CurrencyGuard == pc = "done" => IsSubseq(GuardedRuns(text), DigitRuns(out))

\* C5 as stated: the line changes only by losing digit runs: every other
\* character is kept once and in order, and a line whose numbers are all
\* protected is returned unchanged.
C5_OnlyDigitsRemoved ==
    pc = "done" =>
        /\ NonDigits(out) = NonDigits(text)
        /\ (AllProtected(text) => out = text)

(***************************************************************************)
(* Text helpers shared by the whole-text passes.                           *)
(***************************************************************************)
\* s[p..].replace(pat, rep): leftmost occurrences, not overlapping
RECURSIVE ReplaceFrom(_, _, _, _)
ReplaceFrom(s, p, pat, rep) ==
    IF p > Len(s) THEN <<>>
    ELSE IF StartsAt(s, p, pat)
         THEN rep \o ReplaceFrom(s, p + Len(pat), pat, rep)
         ELSE <<s[p]>> \o ReplaceFrom(s, p + 1, pat, rep)

Replace(s, pat, rep) == ReplaceFrom(s, 1, pat, rep)

\* the number of occurrences str.replace / str.count finds
RECURSIVE CountFrom(_, _, _)
CountFrom(s, p, pat) ==
    IF p > Len(s) THEN 0
    ELSE IF StartsAt(s, p, pat) THEN 1 + CountFrom(s, p + Len(pat), pat)
         ELSE CountFrom(s, p + 1, pat)

\* the length of the run of character c that starts at p
RECURSIVE RunOf(_, _, _)
RunOf(s, p, c) == IF p <= Len(s) /\ s[p] = c THEN 1 + RunOf(s, p + 1, c) ELSE 0

\* re.sub(r"\n{3,}", "\n\n", s[p..])
RECURSIVE collapse_newlines_from(_, _)
collapse_newlines_from(s, p) ==
    IF p > Len(s) THEN <<>>
    ELSE IF s[p] = "\n"
         THEN LET r == RunOf(s, p, "\n")
              IN  (IF r >= 3 THEN <<"\n", "\n">> ELSE Slice(s, p, p + r - 1))
                      \o collapse_newlines_from(s, p + r)
         ELSE <<s[p]>> \o collapse_newlines_from(s, p + 1)

collapse_newlines(s) == collapse_newlines_from(s, 1)

\* the position of the first quote after p, 0 when there is none
RECURSIVE NextQuote(_, _)
NextQuote(s, p) ==
    IF p + 1 > Len(s) THEN 0
    ELSE IF s[p + 1] = "\"" THEN p + 1 ELSE NextQuote(s, p + 1)

(***************************************************************************)
(* dialogue_paragraphing (Step2_formatting_v14.py).  The placeholder       *)
(* "<<<PBRK>>>" is held as one element of the text; no input spells it.    *)
(***************************************************************************)
MaxDialoguePieces == 5

DialoguePieces ==
    {<<"\"">>, <<"\"", "A", ".", "\"">>, <<" ">>, <<".">>, <<"A">>, <<"\n">>}

PBRK == "<<<PBRK>>>"
Terminal == {".", "!", "?"}

\* Rule A, r'(")([^"]*?)(")\s+(")' at p: the end of the match, 0 for none
match_between(s, p) ==
    IF s[p] # "\"" THEN 0
    ELSE LET q == NextQuote(s, p)
             w == IF q = 0 THEN 0 ELSE SkipSpace(s, q + 1)
         IN  IF q # 0 /\ w > q + 1 /\ w <= Len(s) /\ s[w] = "\""
             THEN w ELSE 0

\* pattern_between_any.subn(r'\1\2"\n\n"', s[p..])
RECURSIVE sub_between(_, _)
sub_between(s, p) ==
    IF p > Len(s) THEN [t |-> <<>>, n |-> 0]
    ELSE LET w == match_between(s, p)
         IN  IF w > 0
             THEN LET rest == sub_between(s, w + 1)
                  IN  [t |-> Slice(s, p, NextQuote(s, p) - 1)
                                 \o <<"\"", "\n", "\n", "\"">> \o rest.t,
                       n |-> 1 + rest.n]
             ELSE LET rest == sub_between(s, p + 1)
                  IN  [t |-> <<s[p]>> \o rest.t, n |-> rest.n]

\* Rule B, r'([.!?])\s+(")' at p: the end of the match, 0 for none
match_before(s, p) ==
    IF s[p] \notin Terminal THEN 0
    ELSE LET w == SkipSpace(s, p + 1)
         IN  IF w > p + 1 /\ w <= Len(s) /\ s[w] = "\"" THEN w ELSE 0

\* pattern_before.subn(r'\1\n\n\2', s[p..])
RECURSIVE sub_before(_, _)
sub_before(s, p) ==
    IF p > Len(s) THEN [t |-> <<>>, n |-> 0]
    ELSE LET w == match_before(s, p)
         IN  IF w > 0
             THEN LET rest == sub_before(s, w + 1)
                  IN  [t |-> <<s[p], "\n", "\n", "\"">> \o rest.t,
                       n |-> 1 + rest.n]
             ELSE LET rest == sub_before(s, p + 1)
                  IN  [t |-> <<s[p]>> \o rest.t, n |-> rest.n]

\* Rule C, r'("([^"]*[.!?])")\s+([A-ZÀ-Ö])' at p: the end of the match
match_to_narr(s, p) ==
    IF s[p] # "\"" THEN 0
    ELSE LET q == NextQuote(s, p)
             w == IF q = 0 THEN 0 ELSE SkipSpace(s, q + 1)
         IN  IF /\ q # 0 /\ q - 1 > p /\ s[q - 1] \in Terminal
                /\ w > q + 1 /\ w <= Len(s) /\ s[w] \in Upper
             THEN w ELSE 0

\* pattern_to_narr.subn(r'\1\n\n\3', s[p..])
RECURSIVE sub_to_narr(_, _)
sub_to_narr(s, p) ==
    IF p > Len(s) THEN [t |-> <<>>, n |-> 0]
    ELSE LET w == match_to_narr(s, p)
         IN  IF w > 0
             THEN LET rest == sub_to_narr(s, w + 1)
                  IN  [t |-> Slice(s, p, NextQuote(s, p))
                                 \o <<"\n", "\n", s[w]>> \o rest.t,
                       n |-> 1 + rest.n]
             ELSE LET rest == sub_to_narr(s, p + 1)
                  IN  [t |-> <<s[p]>> \o rest.t, n |-> rest.n]

InitDialogue ==
    /\ text \in {Flatten(ps) : ps \in SeqsUpTo(DialoguePieces, MaxDialoguePieces)}
    /\ out = text
    /\ pc = "placeholder"
    /\ log = [between_quotes |-> 0, before_leading_quote |-> 0,
              after_quote_to_narration |-> 0]
    /\ lines = <<>> /\ i = 0 /\ line = <<>>
    /\ protected_chapter_idx = 0 /\ to_delete = <<>> /\ visited = {}
    /\ out2 = <<>>

\* normalise line ends, collapse blank runs, hide the paragraph breaks
HideBreaks ==
    /\ pc = "placeholder"
    /\ out' = Replace(collapse_newlines(Replace(out, <<"\r", "\n">>, <<"\n">>)),
                      <<"\n", "\n">>, <<PBRK>>)
    /\ pc' = "rule_a"
    /\ UNCHANGED <<text, lines, i, protected_chapter_idx, to_delete, visited,
                   line, log, out2>>

RuleA ==
    /\ pc = "rule_a"
    /\ LET r == sub_between(out, 1)
       IN  /\ out' = r.t
           /\ log' = [log EXCEPT !.between_quotes = r.n]
    /\ pc' = "rule_b"
    /\ UNCHANGED <<text, lines, i, protected_chapter_idx, to_delete, visited,
                   line, out2>>

RuleB ==
    /\ pc = "rule_b"
    /\ LET r == sub_before(out, 1)
       IN  /\ out' = r.t
           /\ log' = [log EXCEPT !.before_leading_quote = r.n]
    /\ pc' = "rule_c"
    /\ UNCHANGED <<text, lines, i, protected_chapter_idx, to_delete, visited,
                   line, out2>>

RuleC ==
    /\ pc = "rule_c"
    /\ LET r == sub_to_narr(out, 1)
       IN  /\ out' = r.t
           /\ log' = [log EXCEPT !.after_quote_to_narration = r.n]
    /\ pc' = "restore"
    /\ UNCHANGED <<text, lines, i, protected_chapter_idx, to_delete, visited,
                   line, out2>>

\* put the paragraph breaks back and collapse blank runs
RestoreBreaks ==
    /\ pc = "restore"
    /\ out' = collapse_newlines(Replace(out, <<PBRK>>, <<"\n", "\n">>))
    /\ pc' = "done"
    /\ UNCHANGED <<text, lines, i, protected_chapter_idx, to_delete, visited,
                   line, log, out2>>

NextDialogue == HideBreaks \/ RuleA \/ RuleB \/ RuleC \/ RestoreBreaks

SpecDialogue == InitDialogue /\ [][NextDialogue]_vars

(***************************************************************************)
(* Properties of dialogue_paragraphing.                                    *)
(***************************************************************************)
\* the positions of the quote characters of s[p..], in order
RECURSIVE QuotesFrom(_, _)
QuotesFrom(s, p) ==
    IF p > Len(s) THEN <<>>
    ELSE (IF s[p] = "\"" THEN <<p>> ELSE <<>>) \o QuotesFrom(s, p + 1)

QuotePositions(s) == QuotesFrom(s, 1)

IsNonSpace(c) == c \notin Space
NonSpace(s) == SelectSeq(s, IsNonSpace)
OnlySpace(s) == s # <<>> /\ \A k \in 1..Len(s) : s[k] \in Space
HasBreak(s) == \E k \in 1..(Len(s) - 1) : s[k] = "\n" /\ s[k + 1] = "\n"

\* the text strictly between the a-th and the b-th quote of s
BetweenQuotes(s, a, b) ==
    Slice(s, QuotePositions(s)[a] + 1, QuotePositions(s)[b] - 1)

\* quoted span k of s runs from quote 2k-1 to quote 2k; spans k and k+1 are
\* adjacent when only whitespace stands between quote 2k and quote 2k+1
AdjacentSpans(s, k) ==
    /\ 2 * k + 2 <= Len(QuotePositions(s))
    /\ OnlySpace(BetweenQuotes(s, 2 * k, 2 * k + 1))

\* C6 as stated (Rule A): between every two adjacent quoted spans, each
\* boundary of a longer run included, the output has a paragraph break, and
\* the characters of both spans are kept.
C6_BreakBetweenSpans ==
    pc = "done" =>
        /\ Len(QuotePositions(out)) = Len(QuotePositions(text))
        /\ \A k \in 1..Len(text) :
               AdjacentSpans(text, k) =>
                   /\ HasBreak(BetweenQuotes(out, 2 * k, 2 * k + 1))
                   /\ \A j \in {k, k + 1} :
                          NonSpace(BetweenQuotes(out, 2 * j - 1, 2 * j))
                              = NonSpace(BetweenQuotes(text, 2 * j - 1, 2 * j))

(***************************************************************************)
(* fix_lone_quote_lines (Step2_formatting_v14.py).                         *)
(*                                                                         *)
(* The text is built from lines of the kinds the pass tells apart: empty,  *)
(* spaces only, a quote alone, a word, a word ending with a quote and a    *)
(* word ending with a quote and a space.  The only line end drawn is "\n". *)
(* Line indices are those of the code (the first line is line 0).          *)
(***************************************************************************)
MaxLoneLines == 5

LoneLineKinds == {<<>>, <<" ">>, <<"\"">>, <<"x">>, <<"x", "\"">>,
                  <<"x", "\"", " ">>}

\* sep.join(ls)
RECURSIVE Join(_, _)
Join(ls, sep) ==
    IF Len(ls) = 0 THEN <<>>
    ELSE IF Len(ls) = 1 THEN ls[1]
    ELSE ls[1] \o sep \o Join(Tail(ls), sep)

\* s[p..].splitlines() with cur the line read so far: a line end closes the
\* line, and the end of the text closes a line only when it is not empty
RECURSIVE splitlines_from(_, _, _)
splitlines_from(s, p, cur) ==
    IF p > Len(s) THEN (IF Len(cur) = 0 THEN <<>> ELSE <<cur>>)
    ELSE IF s[p] = "\n" THEN <<cur>> \o splitlines_from(s, p + 1, <<>>)
    ELSE splitlines_from(s, p + 1, Append(cur, s[p]))

splitlines(s) == splitlines_from(s, 1, <<>>)

RECURSIVE rstrip(_)
rstrip(s) ==
    IF Len(s) > 0 /\ s[Len(s)] \in Space THEN rstrip(Slice(s, 1, Len(s) - 1))
    ELSE s

RECURSIVE lstrip(_)
lstrip(s) == IF Len(s) > 0 /\ s[1] \in Space THEN lstrip(Tail(s)) ELSE s

strip(s) == lstrip(rstrip(s))

\* lines[k].strip() == ""
is_blank(ls, k) == Len(strip(ls[k + 1])) = 0

\* the test of the loop body on line k
is_lone_quote(ls, k) ==
    /\ strip(ls[k + 1]) = <<"\"">>
    /\ is_blank(ls, k - 1)
    /\ is_blank(ls, k + 1)

\* the inner loop on j: the nearest non-blank line at or above j, -1 if none
RECURSIVE line_above(_, _)
line_above(ls, j) ==
    IF j >= 0 /\ is_blank(ls, j) THEN line_above(ls, j - 1) ELSE j

ends_with_quote_never(s) == FALSE

\* lines[j].rstrip().endswith('"')
ends_with_quote(s) ==
    LET r == rstrip(s) IN Len(r) > 0 /\ r[Len(r)] = "\""

\* del lines[k]
del_line(ls, k) == Slice(ls, 1, k) \o Slice(ls, k + 2, Len(ls))

InitLoneQuote ==
    /\ text \in {Join(ls, <<"\n">>) : ls \in SeqsUpTo(LoneLineKinds, MaxLoneLines)}
    /\ pc = "split"
    /\ lines = <<>> /\ i = 0 /\ out = <<>>
    /\ log = [removed |-> 0, appended_to_above |-> 0]
    /\ line = <<>>
    /\ protected_chapter_idx = 0 /\ to_delete = <<>> /\ visited = {}
    /\ out2 = <<>>

SplitLines ==
    /\ pc = "split"
    /\ lines' = splitlines(text)
    /\ i' = 1
    /\ pc' = "scan"
    /\ UNCHANGED <<text, protected_chapter_idx, to_delete, visited, line, log,
                   out, out2>>

\* line i is no lone quote between blank lines: i += 1
KeepLine ==
    /\ pc = "scan"
    /\ i < Len(lines) - 1
    /\ ~is_lone_quote(lines, i)
    /\ i' = i + 1
    /\ UNCHANGED <<text, lines, pc, protected_chapter_idx, to_delete, visited,
                   line, log, out, out2>>

\* the line above already ends with a quote: the lone line is deleted
RemoveLone ==
    /\ pc = "scan"
    /\ i < Len(lines) - 1
    /\ is_lone_quote(lines, i)
    /\ LET j == line_above(lines, i - 2)
       IN  /\ j >= 0
           /\ ends_with_quote(lines[j + 1])
    /\ lines' = del_line(lines, i)
    /\ log' = [log EXCEPT !.removed = @ + 1]
    /\ UNCHANGED <<text, i, pc, protected_chapter_idx, to_delete, visited,
                   line, out, out2>>

\* the quote goes to the end of the line above, the lone line is deleted
AppendQuote ==
    /\ pc = "scan"
    /\ i < Len(lines) - 1
    /\ is_lone_quote(lines, i)
    /\ LET j == line_above(lines, i - 2)
       IN  /\ j >= 0
           /\ ~ends_with_quote(lines[j + 1])
           /\ lines' = del_line([lines EXCEPT ![j + 1] = @ \o <<"\"">>], i)
    /\ log' = [log EXCEPT !.appended_to_above = @ + 1]
    /\ UNCHANGED <<text, i, pc, protected_chapter_idx, to_delete, visited,
                   line, out, out2>>

\* there is no non-blank line above: the lone line is deleted
RemoveNoLineAbove ==
    /\ pc = "scan"
    /\ i < Len(lines) - 1
    /\ is_lone_quote(lines, i)
    /\ line_above(lines, i - 2) < 0
    /\ lines' = del_line(lines, i)
    /\ log' = [log EXCEPT !.removed = @ + 1]
    /\ UNCHANGED <<text, i, pc, protected_chapter_idx, to_delete, visited,
                   line, out, out2>>

\* the loop is over: join the lines and collapse the runs of line ends
JoinLines ==
    /\ pc = "scan"
    /\ ~(i < Len(lines) - 1)
    /\ out' = collapse_newlines(Join(lines, <<"\n">>))
    /\ pc' = "done"
    /\ UNCHANGED <<text, lines, i, protected_chapter_idx, to_delete, visited,
                   line, log, out2>>

NextLoneQuote ==
    \/ SplitLines
    \/ KeepLine
    \/ RemoveLone
    \/ AppendQuote
    \/ RemoveNoLineAbove
    \/ JoinLines

SpecLoneQuote == InitLoneQuote /\ [][NextLoneQuote]_vars

(***************************************************************************)
(* Properties of fix_lone_quote_lines.  Lines are numbered from 1 here.    *)
(***************************************************************************)
IsBlankLine(l) == \A c \in 1..Len(l) : l[c] \in Space

\* the line ends with a quote, trailing white space aside
EndsInQuote(l) ==
    \E p \in 1..Len(l) : l[p] = "\"" /\ \A q \in (p + 1)..Len(l) : l[q] \in Space

\* line k is a quote alone, with a blank line right above and right below
LoneFlanked(ls, k) ==
    /\ 1 < k /\ k < Len(ls)
    /\ \E p \in 1..Len(ls[k]) :
           ls[k][p] = "\"" /\ \A q \in 1..Len(ls[k]) : q # p => ls[k][q] \in Space
    /\ IsBlankLine(ls[k - 1])
    /\ IsBlankLine(ls[k + 1])

RECURSIVE SortedSeq(_)
SortedSeq(S) ==
    IF S = {} THEN <<>>
    ELSE LET m == CHOOSE x \in S : \A y \in S : x <= y
         IN  <<m>> \o SortedSeq(S \ {m})

\* the non-blank lines of ls, and those of them that are no flanked lone quote
NonBlankLines(ls) == SortedSeq({k \in 1..Len(ls) : ~IsBlankLine(ls[k])})
KeptLines(ls) ==
    SortedSeq({k \in 1..Len(ls) : ~IsBlankLine(ls[k]) /\ ~LoneFlanked(ls, k)})

\* the nearest non-blank line above line k, 0 when there is none
NearestAbove(ls, k) ==
    LET S == {j \in 1..(k - 1) : ~IsBlankLine(ls[j])}
    IN  IF S = {} THEN 0 ELSE CHOOSE j \in S : \A m \in S : m <= j

\* line j is the nearest line above a flanked lone quote and ends with no quote
GetsQuote(ls, j) ==
    /\ \E k \in 1..Len(ls) : LoneFlanked(ls, k) /\ NearestAbove(ls, k) = j
    /\ ~EndsInQuote(ls[j])

\* the non-blank lines the claim leaves: lone quotes gone, one quote appended
ClaimedLines(ls) ==
    LET K == KeptLines(ls)
    IN  [r \in 1..Len(K) |->
            IF GetsQuote(ls, K[r]) THEN ls[K[r]] \o <<"\"">> ELSE ls[K[r]]]

LinesOf(ls) == LET N == NonBlankLines(ls) IN [r \in 1..Len(N) |-> ls[N[r]]]

LinesAsClaimed == LinesOf(splitlines(out)) = ClaimedLines(splitlines(text))

\* a flanked lone quote lies between lines a and b
GapTouched(ls, a, b) == \E k \in (a + 1)..(b - 1) : LoneFlanked(ls, k)

\* every blank line between lines a and b holds no character at all
GapEmpty(ls, a, b) ==
    \A k \in (a + 1)..(b - 1) : LoneFlanked(ls, k) \/ Len(ls[k]) = 0

\* the blank lines between a and b that hold white space, in order
SpacedBlanks(ls, a, b) ==
    LET S == SortedSeq({k \in (a + 1)..(b - 1) : IsBlankLine(ls[k]) /\ Len(ls[k]) > 0})
    IN  [r \in 1..Len(S) |-> ls[S[r]]]

\* C7 as stated: the flanked lone quote lines are removed, the nearest non-blank
\* line above gets exactly one quote unless it ends with one, nothing else
\* changes, and the two lines around a removed lone quote end up separated by
\* exactly one blank line.
C7_LoneQuoteCollapsed ==
    pc = "done" =>
        LET L == splitlines(text)
            O == splitlines(out)
            K == KeptLines(L)
            N == NonBlankLines(O)
        IN  /\ LinesAsClaimed
            /\ Len(N) = Len(K)
            /\ \A r \in 1..(Len(K) - 1) :
                   GapTouched(L, K[r], K[r + 1]) => N[r + 1] = N[r] + 2

\* C7 as the code has it: the lines are as the claim says; the two lines around
\* a removed lone quote end up separated by exactly one empty line when every
\* blank line between them was empty; blank lines holding white space are kept.
C7_LoneQuoteFixed ==
    pc = "done" =>
        LET L == splitlines(text)
            O == splitlines(out)
            K == KeptLines(L)
            N == NonBlankLines(O)
        IN  /\ LinesAsClaimed
            /\ Len(N) = Len(K)
            /\ \A r \in 1..(Len(K) - 1) :
                   GapTouched(L, K[r], K[r + 1]) =>
                       /\ GapEmpty(L, K[r], K[r + 1]) =>
                              /\ N[r + 1] = N[r] + 2
                              /\ Len(O[N[r] + 1]) = 0
                       /\ SpacedBlanks(O, N[r], N[r + 1])
                              = SpacedBlanks(L, K[r], K[r + 1])

\* line1, blank, quote, blank, line2 has become line1", blank, line2
C7_Witness ==
    /\ pc = "done"
    /\ text = <<"x", "\n", "\n", "\"", "\n", "\n", "x">>
    /\ out = <<"x", "\"", "\n", "\n", "x">>
    /\ log.appended_to_above = 1

(***************************************************************************)
(* reflow and safe_dehyphenate (Step2_formatting_v14.py).                  *)
(*                                                                         *)
(* The placeholder "<<<P>>>" and the soft hyphen U+00AD are one element of *)
(* the text each; the texts drawn hold neither "<", "P" nor ">", so the    *)
(* placeholder never meets a character of the input.                       *)
(***************************************************************************)
MaxReflowPieces == 5

ReflowPieces == {<<"a">>, <<"A">>, <<"-", "\n">>, <<"\n">>, <<" ">>, <<".">>,
                 <<"\r">>}

PARA == "<<<P>>>"
SHY == "U+00AD"

\* [,.;:?!]
TidyPunct == {",", ".", ";", ":", "?", "!"}

\* the replacement for a match with groups before and after
safe_dehyphenate(before, after) ==
    IF after \in Lower THEN <<before, after>> ELSE <<before, "-", after>>

\* re.sub(r"([A-Za-z])-(?:\n)([A-Za-z])", safe_dehyphenate, s[p..])
RECURSIVE sub_dehyphenate(_, _)
sub_dehyphenate(s, p) ==
    IF p > Len(s) THEN <<>>
    ELSE IF /\ p + 3 <= Len(s)
            /\ s[p] \in Letter
            /\ s[p + 1] = "-"
            /\ s[p + 2] = "\n"
            /\ s[p + 3] \in Letter
         THEN safe_dehyphenate(s[p], s[p + 3]) \o sub_dehyphenate(s, p + 4)
         ELSE <<s[p]>> \o sub_dehyphenate(s, p + 1)

\* the length of the run of characters of C at s[p..]
RECURSIVE RunIn(_, _, _)
RunIn(s, p, C) == IF p <= Len(s) /\ s[p] \in C THEN 1 + RunIn(s, p + 1, C) ELSE 0

\* re.sub(r"[ \t]{2,}", " ", s[p..])
RECURSIVE sub_spaces(_, _)
sub_spaces(s, p) ==
    IF p > Len(s) THEN <<>>
    ELSE LET r == RunIn(s, p, {" ", "\t"})
         IN  IF r >= 2 THEN <<" ">> \o sub_spaces(s, p + r)
             ELSE <<s[p]>> \o sub_spaces(s, p + 1)

\* re.sub(r"\s+([,.;:?!])", r"\1", s[p..])
RECURSIVE sub_space_before_punct(_, _)
sub_space_before_punct(s, p) ==
    IF p > Len(s) THEN <<>>
    ELSE LET r == RunIn(s, p, Space)
         IN  IF r >= 1 /\ p + r <= Len(s) /\ s[p + r] \in TidyPunct
             THEN <<s[p + r]>> \o sub_space_before_punct(s, p + r + 1)
             ELSE <<s[p]>> \o sub_space_before_punct(s, p + 1)

\* re.sub(r'([.!?])([A-Za-z])', r'\1 \2', s[p..])
RECURSIVE sub_space_after_terminal(_, _)
sub_space_after_terminal(s, p) ==
    IF p > Len(s) THEN <<>>
    ELSE IF p + 1 <= Len(s) /\ s[p] \in Terminal /\ s[p + 1] \in Letter
         THEN <<s[p], " ", s[p + 1]>> \o sub_space_after_terminal(s, p + 2)
         ELSE <<s[p]>> \o sub_space_after_terminal(s, p + 1)

\* the text up to the count of the single line ends
reflow_joined(s) ==
    LET t1 == Replace(s, <<"\r", "\n">>, <<"\n">>)
        t2 == collapse_newlines(t1)
        t3 == Replace(t2, <<"\n", "\n">>, <<PARA>>)
        t4 == sub_dehyphenate(t3, 1)
    IN  Replace(t4, <<SHY, "\n">>, <<>>)

\* reflow(s): the text returned and the number logged
reflow(s) ==
    LET t5 == reflow_joined(s)
        t6 == Replace(t5, <<"\n">>, <<" ">>)
        t7 == Replace(t6, <<PARA>>, <<"\n", "\n">>)
        t8 == sub_spaces(t7, 1)
        t9 == sub_space_before_punct(t8, 1)
    IN  [t |-> sub_space_after_terminal(t9, 1),
         n |-> CountFrom(t5, 1, <<"\n">>)]

InitReflow ==
    /\ text \in {Flatten(ps) : ps \in SeqsUpTo(ReflowPieces, MaxReflowPieces)}
    /\ pc = "reflow"
    /\ out = <<>> /\ out2 = <<>>
    /\ log = [single_newlines_joined |-> 0]
    /\ lines = <<>> /\ i = 0 /\ line = <<>>
    /\ protected_chapter_idx = 0 /\ to_delete = <<>> /\ visited = {}

\* text = reflow(text, log)
Reflow ==
    /\ pc = "reflow"
    /\ LET r == reflow(text)
       IN  /\ out' = r.t
           /\ log' = [single_newlines_joined |-> r.n]
    /\ pc' = "again"
    /\ UNCHANGED <<text, lines, i, protected_chapter_idx, to_delete, visited,
                   line, out2>>

\* reflow run on its own output
ReflowAgain ==
    /\ pc = "again"
    /\ LET r == reflow(out)
       IN  /\ out2' = r.t
           /\ log' = [single_newlines_joined |-> r.n]
    /\ pc' = "done"
    /\ UNCHANGED <<text, lines, i, protected_chapter_idx, to_delete, visited,
                   line, out>>

NextReflow == Reflow \/ ReflowAgain

SpecReflow == InitReflow /\ [][NextReflow]_vars

(***************************************************************************)
(* Properties of reflow.                                                   *)
(***************************************************************************)
Hyphens(s) == Cardinality({p \in 1..Len(s) : s[p] = "-"})

\* s[p..] is a letter, a hyphen, a line end and a lowercase letter
HyphenSite(s, p) ==
    /\ s[p] \in Letter
    /\ \/ StartsAt(s, p + 1, <<"-", "\n">>)
          /\ p + 3 <= Len(s) /\ s[p + 3] \in Lower
       \/ StartsAt(s, p + 1, <<"-", "\r", "\n">>)
          /\ p + 4 <= Len(s) /\ s[p + 4] \in Lower

\* the number of paragraphs: the non-blank lines that follow no non-blank line
ParagraphCount(s) ==
    LET L == splitlines(s)
    IN  Cardinality({k \in 1..Len(L) :
                        /\ ~IsBlankLine(L[k])
                        /\ k = 1 \/ IsBlankLine(L[k - 1])})

\* C8: reflow removes the hyphen (and the line break) at every place where a
\* line ends with a letter and a hyphen and the next line starts with a
\* lowercase letter, and keeps every other hyphen, so the text returned holds
\* the hyphens of the input less one for each such place.
C8_Dehyphenated ==
    pc # "reflow" =>
        Hyphens(out) = Hyphens(text)
                           - Cardinality({p \in 1..Len(text) : HyphenSite(text, p)})

\* C9: reflow neither creates nor destroys a paragraph boundary, so the text
\* returned has as many paragraphs as the input.
C9_ParagraphsKept ==
    pc # "reflow" => ParagraphCount(out) = ParagraphCount(text)

\* C10: reflow run on its own output returns it unchanged.
C10_Idempotent ==
    pc = "done" => out2 = out

(***************************************************************************)
(* The quote passes of Step2_formatting_v14.py, in the order of main: the  *)
(* quote normalisation of french_and_artifacts, fix_lone_quote_lines,      *)
(* fix_leading_quote_space_opening_quote, split_adjacent_quotes_to_newline *)
(* and collapse_double_quotes_with_space.                                  *)
(*                                                                         *)
(* A character outside ASCII is one element of the text, named by its code *)
(* point.                                                                  *)
(***************************************************************************)
MaxQuotePieces == 5

QuotePieces == {<<"\"">>, <<"U+201C">>, <<" ">>, <<"\n">>, <<"a">>, <<".">>}

LDQ == "U+201C"
RDQ == "U+201D"
NBSP == "U+00A0"

\* the keys of QUOTE_VARIANTS
QUOTE_VARIANTS == {"U+201C", "U+201D", "U+201E", "U+201F", "U+301D", "U+301E",
                   "U+00AB", "U+00BB", "U+2039", "U+203A", "U+FF02", "U+275D",
                   "U+275E"}

\* the loop of text.replace(qv, '"') over QUOTE_VARIANTS
map_quote_variants(s) ==
    [k \in 1..Len(s) |-> IF s[k] \in QUOTE_VARIANTS THEN "\"" ELSE s[k]]

\* re.subn(r'"{2,}', '"', s[p..])
RECURSIVE collapse_quote_runs(_, _)
collapse_quote_runs(s, p) ==
    IF p > Len(s) THEN [t |-> <<>>, n |-> 0]
    ELSE LET r == RunOf(s, p, "\"")
         IN  IF r >= 2
             THEN LET rest == collapse_quote_runs(s, p + r)
                  IN  [t |-> <<"\"">> \o rest.t, n |-> rest.n + 1]
             ELSE LET rest == collapse_quote_runs(s, p + 1)
                  IN  [t |-> <<s[p]>> \o rest.t, n |-> rest.n]

\* the quote normalisation of french_and_artifacts
normalize_quotes(s) == collapse_quote_runs(map_quote_variants(s), 1).t

\* the loop of fix_lone_quote_lines from line k on
RECURSIVE lone_quote_loop(_, _)
lone_quote_loop(ls, k) ==
    IF ~(k < Len(ls) - 1) THEN ls
    ELSE IF ~is_lone_quote(ls, k) THEN lone_quote_loop(ls, k + 1)
    ELSE LET j == line_above(ls, k - 2)
         IN  IF j >= 0 /\ ~ends_with_quote(ls[j + 1])
             THEN lone_quote_loop(
                      del_line([ls EXCEPT ![j + 1] = @ \o <<"\"">>], k), k)
             ELSE lone_quote_loop(del_line(ls, k), k)

fix_lone_quote_lines(s) ==
    collapse_newlines(Join(lone_quote_loop(splitlines(s), 1), <<"\n">>))

\* the pattern ^\s*"\s+([...])(.*)$ on a line: the position of the real
\* opening quote, 0 when the line does not match
leading_quote_match(l) ==
    LET a == RunIn(l, 1, Space)
    IN  IF a + 1 <= Len(l) /\ l[a + 1] = "\""
        THEN LET b == RunIn(l, a + 2, Space)
             IN  IF b >= 1 /\ a + 2 + b <= Len(l) /\ l[a + 2 + b] \in {LDQ, "\""}
                 THEN a + 2 + b
                 ELSE 0
        ELSE 0

find_prev_nonempty(ls, k) == line_above(ls, k - 1)

\* lines[prev].rstrip().endswith((RDQ, '"'))
ends_with_closing(l) ==
    LET r == rstrip(l) IN Len(r) > 0 /\ r[Len(r)] \in {RDQ, "\""}

\* the loop of fix_leading_quote_space_opening_quote from line k on
RECURSIVE leading_quote_loop(_, _)
leading_quote_loop(ls, k) ==
    IF k >= Len(ls) THEN ls
    ELSE LET q == leading_quote_match(ls[k + 1])
             prev == find_prev_nonempty(ls, k)
         IN  IF q = 0 \/ prev < 0 THEN leading_quote_loop(ls, k + 1)
             ELSE LET pl == ls[prev + 1]
                      lead == lstrip(pl)
                      closing == IF Len(lead) > 0 /\ lead[1] = LDQ
                                 THEN RDQ ELSE "\""
                      pl2 == IF ends_with_closing(pl) THEN pl
                             ELSE rstrip(pl) \o <<closing>>
                      cur == Slice(ls[k + 1], q, Len(ls[k + 1]))
                 IN  leading_quote_loop(
                         [ls EXCEPT ![prev + 1] = pl2, ![k + 1] = cur], k + 1)

fix_leading_quote_space_opening_quote(s) ==
    Join(leading_quote_loop(splitlines(s), 0), <<"\n">>)

\* pattern.sub(repl, s[p..]) of split_adjacent_quotes_to_newline
RECURSIVE split_adjacent_quotes_to_newline(_, _)
split_adjacent_quotes_to_newline(s, p) ==
    IF p > Len(s) THEN <<>>
    ELSE LET r == RunIn(s, p + 1, Space)
         IN  IF /\ s[p] \in {RDQ, "\""}
                /\ r >= 1
                /\ p + r + 2 <= Len(s)
                /\ s[p + r + 1] \in {"\"", LDQ}
                /\ s[p + r + 2] \in Letter \cup {LDQ}
             THEN <<s[p], "\n", "\n", s[p + r + 1]>>
                      \o split_adjacent_quotes_to_newline(s, p + r + 2)
             ELSE <<s[p]>> \o split_adjacent_quotes_to_newline(s, p + 1)

\* pattern.subn(lambda m: m.group(3), s[p..]) of collapse_double_quotes_with_space
RECURSIVE collapse_double_quotes_with_space(_, _)
collapse_double_quotes_with_space(s, p) ==
    IF p > Len(s) THEN <<>>
    ELSE LET r == RunIn(s, p + 1, {NBSP, " ", "\t"})
         IN  IF /\ s[p] \in {RDQ, "\""}
                /\ r >= 1
                /\ p + r + 1 <= Len(s)
                /\ s[p + r + 1] \in {"\"", LDQ}
             THEN <<s[p + r + 1]>>
                      \o collapse_double_quotes_with_space(s, p + r + 2)
             ELSE <<s[p]>> \o collapse_double_quotes_with_space(s, p + 1)

\* the text the current run of the quote passes works on: out in the first
\* run, out2 (which starts as the result of the first run) in the second
quote_text == IF i = 1 THEN out ELSE out2

quote_pass(result, next) ==
    /\ IF i = 1 THEN out' = result /\ out2' = out2
                ELSE out2' = result /\ out' = out
    /\ pc' = next
    /\ UNCHANGED <<text, lines, i, protected_chapter_idx, to_delete, visited,
                   line, log>>

InitQuotes ==
    /\ text \in {Flatten(ps) : ps \in SeqsUpTo(QuotePieces, MaxQuotePieces)}
    /\ out = text /\ out2 = <<>>
    /\ i = 1
    /\ pc = "normalize"
    /\ lines = <<>> /\ line = <<>> /\ log = NoLog
    /\ protected_chapter_idx = 0 /\ to_delete = <<>> /\ visited = {}

NormalizeQuotes ==
    /\ pc = "normalize"
    /\ quote_pass(normalize_quotes(quote_text), "lone")

LoneQuotePass ==
    /\ pc = "lone"
    /\ quote_pass(fix_lone_quote_lines(quote_text), "leading")

LeadingQuotePass ==
    /\ pc = "leading"
    /\ quote_pass(fix_leading_quote_space_opening_quote(quote_text), "split")

SplitAdjacentPass ==
    /\ pc = "split"
    /\ quote_pass(split_adjacent_quotes_to_newline(quote_text, 1), "collapse")

\* the last pass of the first run hands its result to the second run
CollapseQuotesPass ==
    /\ pc = "collapse"
    /\ i = 1
    /\ out' = collapse_double_quotes_with_space(out, 1)
    /\ out2' = out'
    /\ i' = 2
    /\ pc' = "normalize"
    /\ UNCHANGED <<text, lines, protected_chapter_idx, to_delete, visited,
                   line, log>>

CollapseQuotesAgain ==
    /\ pc = "collapse"
    /\ i = 2
    /\ quote_pass(collapse_double_quotes_with_space(out2, 1), "done")

NextQuotes ==
    \/ NormalizeQuotes
    \/ LoneQuotePass
    \/ LeadingQuotePass
    \/ SplitAdjacentPass
    \/ CollapseQuotesPass
    \/ CollapseQuotesAgain

SpecQuotes == InitQuotes /\ [][NextQuotes]_vars

(***************************************************************************)
(* Properties of the quote passes.                                         *)
(***************************************************************************)
\* C11: the quote passes run a second time on their own output change nothing.
C11_QuotesIdempotent ==
    pc = "done" => out2 = out

(***************************************************************************)
(* pass_break_before_first_allcaps_in_chapter (Step3_structuring_v1.py).   *)
(*                                                                         *)
(* Positions count from 1; a match is the position of its first character  *)
(* and the position after its last one.  The pass takes one chapter span   *)
(* per step; out is "".join(pieces) of the spans taken so far.             *)
(***************************************************************************)
MaxIncipitPieces == 5

IncipitPieces == {<<"C", "H", "A", "P", "T", "E", "R", " ", "I">>,
                  <<"S", "H", "E">>, <<"I", "V">>, <<" ">>, <<"\n">>, <<"\"">>,
                  <<"U+201D">>}

\* [IVXLCDM]
ROMAN_RE == {"I", "V", "X", "L", "C", "D", "M"}

HR == <<"-", "-", "-">>

OPEN_QUOTES == {"\"", LDQ, RDQ}

\* CHAPTER_PAT at position p: the position after the match, 0 when none
chapter_match(s, p) ==
    IF /\ p = 1 \/ s[p - 1] = "\n"
       /\ StartsAt(s, p, <<"C", "H", "A", "P", "T", "E", "R">>)
    THEN LET a == RunIn(s, p + 7, Space)
             b == RunIn(s, p + 7 + a, ROMAN_RE)
             e == p + 7 + a + b
         IN  IF a >= 1 /\ b >= 1 /\ (e > Len(s) \/ s[e] \notin WordChar)
             THEN e ELSE 0
    ELSE 0

\* CHAPTER_PAT.finditer(s) from position p on
RECURSIVE chapter_matches(_, _)
chapter_matches(s, p) ==
    IF p > Len(s) THEN <<>>
    ELSE LET e == chapter_match(s, p)
         IN  IF e > 0 THEN <<[start |-> p, mend |-> e]>> \o chapter_matches(s, e)
             ELSE chapter_matches(s, p + 1)

find_chapter_spans(s) ==
    LET ms == chapter_matches(s, 1)
    IN  [k \in 1..Len(ms) |->
            [start |-> ms[k].start,
             end   |-> IF k + 1 <= Len(ms) THEN ms[k + 1].start ELSE Len(s) + 1,
             mend  |-> ms[k].mend]]

\* A1_RE at position q of the block: the length of the token, 0 when none
a1_match(block, q) ==
    LET r == RunIn(block, q, Upper)
    IN  IF /\ q = 1 \/ block[q - 1] \notin WordChar
           /\ r >= 2
           /\ q + r > Len(block) \/ block[q + r] \notin WordChar
        THEN r ELSE 0

is_pure_roman(tok) == Len(tok) >= 1 /\ \A k \in 1..Len(tok) : tok[k] \in ROMAN_RE

is_disallowed_a1(tok) ==
    tok = <<"C", "H", "A", "P", "T", "E", "R">> \/ is_pure_roman(tok)

\* the first allowed match of A1_RE.finditer(block, q), 0 when there is none
RECURSIVE find_a1(_, _)
find_a1(block, q) ==
    IF q > Len(block) THEN 0
    ELSE LET r == a1_match(block, q)
         IN  IF r > 0 /\ ~is_disallowed_a1(Slice(block, q, q + r - 1)) THEN q
             ELSE IF r > 0 THEN find_a1(block, q + r)
             ELSE find_a1(block, q + 1)

choose_insertion_index_for_A1(block, q) ==
    IF q > 2 /\ block[q - 1] = " " /\ block[q - 2] \in OPEN_QUOTES THEN q - 2
    ELSE IF q > 1 /\ block[q - 1] \in OPEN_QUOTES THEN q - 1
    ELSE q

\* span k of the text: its block, the token found and the insertion index
span_block(k) ==
    LET sp == find_chapter_spans(text)[k]
        block == Slice(text, sp.start, sp.end - 1)
        a1 == find_a1(block, sp.mend - sp.start + 1)
    IN  [block |-> block, a1 |-> a1,
         ins |-> IF a1 = 0 THEN 0 ELSE choose_insertion_index_for_A1(block, a1)]

\* text[last_idx:start] in front of span k
piece_before(k) ==
    LET spans == find_chapter_spans(text)
        last_idx == IF k = 1 THEN 1 ELSE spans[k - 1].end
    IN  Slice(text, last_idx, spans[k].start - 1)

\* the separator and a block with the separator put in at position p
Separator == <<"\n", "\n">> \o HR \o <<"\n">>

InsertAt(block, p) ==
    Slice(block, 1, p - 1) \o Separator \o Slice(block, p, Len(block))

InitIncipit ==
    /\ text \in {Flatten(ps) : ps \in SeqsUpTo(IncipitPieces, MaxIncipitPieces)}
    /\ out = <<>> /\ out2 = <<>>
    /\ i = 1
    /\ pc = "spans"
    /\ log = [chapters_processed |-> 0, insertions_before_A1 |-> 0,
              inserted_before_quote |-> 0]
    /\ lines = <<>> /\ line = <<>>
    /\ protected_chapter_idx = 0 /\ to_delete = <<>> /\ visited = {}

\* a span that is not left once its separator is in
InsertAndStay ==
    /\ pc = "spans"
    /\ i <= Len(find_chapter_spans(text))
    /\ LET b == span_block(i)
       IN  /\ b.a1 > 0
           /\ out' = out \o piece_before(i) \o InsertAt(b.block, b.ins)
           /\ log' = [log EXCEPT !.insertions_before_A1 = @ + 1]
    /\ UNCHANGED <<text, lines, i, pc, protected_chapter_idx, to_delete,
                   visited, line, out2>>

\* span i holds an allowed all-caps token: the separator goes in
InsertBeforeA1 ==
    /\ pc = "spans"
    /\ i <= Len(find_chapter_spans(text))
    /\ LET b == span_block(i)
       IN  /\ b.a1 > 0
           /\ out' = out \o piece_before(i) \o InsertAt(b.block, b.ins)
           /\ log' = [log EXCEPT !.insertions_before_A1 = @ + 1,
                                 !.inserted_before_quote =
                                     IF b.ins < b.a1 THEN @ + 1 ELSE @]
    /\ i' = i + 1
    /\ UNCHANGED <<text, lines, pc, protected_chapter_idx, to_delete, visited,
                   line, out2>>

\* span i holds no allowed all-caps token: the block is kept as it is
NoIncipit ==
    /\ pc = "spans"
    /\ i <= Len(find_chapter_spans(text))
    /\ LET b == span_block(i)
       IN  /\ b.a1 = 0
           /\ out' = out \o piece_before(i) \o b.block
    /\ i' = i + 1
    /\ UNCHANGED <<text, lines, pc, protected_chapter_idx, to_delete, visited,
                   line, log, out2>>

\* the spans are done: the rest of the text and the counts
JoinPieces ==
    /\ pc = "spans"
    /\ i > Len(find_chapter_spans(text))
    /\ LET spans == find_chapter_spans(text)
           last_idx == IF Len(spans) = 0 THEN 1 ELSE spans[Len(spans)].end
       IN  /\ out' = out \o Slice(text, last_idx, Len(text))
           /\ log' = [log EXCEPT !.chapters_processed = Len(spans)]
    /\ pc' = "done"
    /\ UNCHANGED <<text, lines, i, protected_chapter_idx, to_delete, visited,
                   line, out2>>

NextIncipit == InsertBeforeA1 \/ NoIncipit \/ JoinPieces

SpecIncipit == InitIncipit /\ [][NextIncipit]_vars

(***************************************************************************)
(* Properties of pass_break_before_first_allcaps_in_chapter.               *)
(***************************************************************************)
\* where the claim lets the separator go for a token at q: right before the
\* token, or before an opening quote that precedes it (with a space or not)
OpeningQuotes == {"\"", LDQ}

ClaimedInsertions(block, q) ==
    IF q > 1 /\ block[q - 1] \in OpeningQuotes THEN {q - 1}
    ELSE IF q > 2 /\ block[q - 1] = " " /\ block[q - 2] \in OpeningQuotes
         THEN {q - 2, q}
    ELSE {q}

ClaimedBlocks(k) ==
    LET b == span_block(k)
    IN  IF b.a1 = 0 THEN {b.block}
        ELSE {InsertAt(b.block, p) : p \in ClaimedInsertions(b.block, b.a1)}

RECURSIVE ClaimedOutputs(_)
ClaimedOutputs(k) ==
    LET spans == find_chapter_spans(text)
    IN  IF k > Len(spans)
        THEN {Slice(text, IF Len(spans) = 0 THEN 1 ELSE spans[Len(spans)].end,
                    Len(text))}
        ELSE {piece_before(k) \o b \o rest :
                  b \in ClaimedBlocks(k), rest \in ClaimedOutputs(k + 1)}

\* C12: in every chapter span that holds an allowed all-caps token the
\* separator is inserted right before the first such token, or before the
\* opening quote in front of it; a closing quote in front of the token stays
\* before the separator; nothing else changes.
C12_SeparatorBeforeIncipit ==
    pc = "done" => out \in ClaimedOutputs(1)

\* the texts that differ from the input by at most one separator put into
\* each chapter span from span k on, and by nothing outside the spans
RECURSIVE AtMostOnePerSpan(_)
AtMostOnePerSpan(k) ==
    LET spans == find_chapter_spans(text)
    IN  IF k > Len(spans)
        THEN {Slice(text, IF Len(spans) = 0 THEN 1 ELSE spans[Len(spans)].end,
                    Len(text))}
        ELSE LET block == Slice(text, spans[k].start, spans[k].end - 1)
             IN  {piece_before(k) \o b \o rest :
                      b \in {block} \cup {InsertAt(block, p) : p \in 1..(Len(block) + 1)},
                      rest \in AtMostOnePerSpan(k + 1)}

\* C13: every span is taken once and gets at most one separator: the count of
\* insertions never exceeds the number of spans taken so far, which never
\* exceeds the number of spans; at the end insertions_before_A1 is at most
\* chapters_processed, and the text returned is the input with at most one
\* separator put into each span and nothing changed outside the spans.
C13_OneSeparatorPerSpan ==
    /\ pc \in {"spans", "done"}
    /\ log.insertions_before_A1 <= i - 1
    /\ i - 1 <= Len(find_chapter_spans(text))
    /\ pc = "done" =>
           /\ log.insertions_before_A1 <= log.chapters_processed
           /\ log.chapters_processed = Len(find_chapter_spans(text))
           /\ out \in AtMostOnePerSpan(1)

\* a span that got its separator, and an all-caps token in front of the span
\* that got none
C13_Witness ==
    /\ pc = "done"
    /\ log.chapters_processed = 1
    /\ log.insertions_before_A1 = 1
    /\ Len(out) = Len(text) + Len(Separator)
    /\ find_a1(piece_before(1), 1) > 0

(***************************************************************************)
(* pass_normalize_inline_chapter_markers (Step3_structuring_v1.py).        *)
(***************************************************************************)
MaxMarkerPieces == 5

MarkerPieces == {<<"C", "H", "A", "P", "T", "E", "R", " ", "I">>, <<"V">>,
                 <<"a">>, <<" ">>, <<"\n">>}

\* CHAPTER\s+[IVXLCDM]+\b at position p, wherever p is: the position after
\* the match, 0 when none
chapter_marker(s, p) ==
    IF StartsAt(s, p, <<"C", "H", "A", "P", "T", "E", "R">>)
    THEN LET a == RunIn(s, p + 7, Space)
             b == RunIn(s, p + 7 + a, ROMAN_RE)
             e == p + 7 + a + b
         IN  IF a >= 1 /\ b >= 1 /\ (e > Len(s) \/ s[e] \notin WordChar)
             THEN e ELSE 0
    ELSE 0

\* promote_pat.subn(r'\n\n\1', s[p..])
RECURSIVE sub_promote(_, _)
sub_promote(s, p) ==
    IF p > Len(s) THEN [t |-> <<>>, n |-> 0]
    ELSE LET e == IF p > 1 /\ s[p - 1] # "\n" THEN chapter_marker(s, p) ELSE 0
         IN  IF e > 0
             THEN LET rest == sub_promote(s, e)
                  IN  [t |-> <<"\n", "\n">> \o Slice(s, p, e - 1) \o rest.t,
                       n |-> rest.n + 1]
             ELSE LET rest == sub_promote(s, p + 1)
                  IN  [t |-> <<s[p]>> \o rest.t, n |-> rest.n]

\* the position of the first line end at or after p, Len(s) + 1 when none
RECURSIVE line_end(_, _)
line_end(s, p) == IF p > Len(s) \/ s[p] = "\n" THEN p ELSE line_end(s, p + 1)

\* the replacement for a match with groups head and rest
split_after_roman(head, rest) == head \o <<"\n", "\n">> \o rstrip(rest)

\* after_pat.subn(_split_after_roman, s[p..])
RECURSIVE sub_after(_, _)
sub_after(s, p) ==
    IF p > Len(s) THEN [t |-> <<>>, n |-> 0]
    ELSE LET e == IF p = 1 \/ s[p - 1] = "\n" THEN chapter_marker(s, p) ELSE 0
         IN  IF e > 0
             THEN LET r == e + RunIn(s, e, {" ", "\t"})
                      z == line_end(s, r)
                      rest == sub_after(s, z)
                  IN  [t |-> split_after_roman(Slice(s, p, e - 1),
                                               Slice(s, r, z - 1)) \o rest.t,
                       n |-> rest.n + 1]
             ELSE LET rest == sub_after(s, p + 1)
                  IN  [t |-> <<s[p]>> \o rest.t, n |-> rest.n]

InitMarkers ==
    /\ text \in {Flatten(ps) : ps \in SeqsUpTo(MarkerPieces, MaxMarkerPieces)}
    /\ out = text /\ out2 = <<>>
    /\ pc = "promote"
    /\ log = [inline_chapter_promoted |-> 0, newline_after_roman_normalized |-> 0]
    /\ lines = <<>> /\ line = <<>> /\ i = 0
    /\ protected_chapter_idx = 0 /\ to_delete = <<>> /\ visited = {}

\* (a) a marker inside a line goes to a line of its own
PromoteInline ==
    /\ pc = "promote"
    /\ LET r == sub_promote(out, 1)
       IN  /\ out' = r.t
           /\ log' = [log EXCEPT !.inline_chapter_promoted = r.n]
    /\ pc' = "after"
    /\ UNCHANGED <<text, lines, i, protected_chapter_idx, to_delete, visited,
                   line, out2>>

\* (b) two line ends after the numeral of every heading line
SplitAfterRoman ==
    /\ pc = "after"
    /\ LET r == sub_after(out, 1)
       IN  /\ out' = r.t
           /\ log' = [log EXCEPT !.newline_after_roman_normalized = r.n]
    /\ pc' = "done"
    /\ UNCHANGED <<text, lines, i, protected_chapter_idx, to_delete, visited,
                   line, out2>>

NextMarkers == PromoteInline \/ SplitAfterRoman

SpecMarkers == InitMarkers /\ [][NextMarkers]_vars

(***************************************************************************)
(* Properties of pass_normalize_inline_chapter_markers.                    *)
(***************************************************************************)
\* the position of the first character at or after p that is no white space
RECURSIVE NextText(_, _)
NextText(s, p) ==
    IF p > Len(s) \/ s[p] \notin Space THEN p ELSE NextText(s, p + 1)

LineEndsIn(s, a, b) == Cardinality({k \in a..b : s[k] = "\n"})

\* C14: in the text returned every CHAPTER <Roman numeral> starts a line, and
\* between the numeral of a heading and the next text there are exactly two
\* line ends, that is one blank line.
C14_HeadingThenOneBlank ==
    pc = "done" =>
        \A p \in 1..Len(out) :
            LET e == chapter_marker(out, p)
                q == NextText(out, e)
            IN  e > 0 =>
                    /\ p = 1 \/ out[p - 1] = "\n"
                    /\ q <= Len(out) => LineEndsIn(out, e, q - 1) = 2

(***************************************************************************)
(* french_and_artifacts of Step2_formatting_v14.py: the specific French    *)
(* words, the mojibake table, the artifact tokens and the quotation marks. *)
(***************************************************************************)

MaxFrenchPieces == 4

\* U+00C3 U+00A9 is the mojibake of e-acute, U+00C2 a stray byte, U+00AB a
\* guillemet, U+201C a curly quote, U+2033 the double prime
FrenchPieces == {<<"U+00C3", "U+00A9">>, <<"U+00C2">>, <<"a">>, <<" ">>,
                 <<"\"">>, <<"U+201C">>, <<"U+00AB">>, <<"U+2033">>}

\* SPECIAL_FR, in the order of the dict: <<bad, good>>
SPECIAL_FR == <<
    <<<<"d", "'", "U", "r", "f", "U+00C3", "U+00A9">>, <<"d", "'", "U", "r", "f", "U+00E9">>>>,
    <<<<"U", "r", "f", "U+00C3", "U+00A9">>, <<"U", "r", "f", "U+00E9">>>>,
    <<<<"S", "o", "c", "i", "U+00C3", "U+00A9", "t", "U+00C3", "U+00A9">>, <<"S", "o", "c", "i", "U+00E9", "t", "U+00E9">>>>,
    <<<<"A", "S", "S", "O", "C", "I", "U+00C3", "U+2030", "S">>, <<"A", "S", "S", "O", "C", "I", "U+00C9", "S">>>>,
    <<<<"C", "h", "a", "m", "b", "U+00C3", "U+00A9", "r", "y">>, <<"C", "h", "a", "m", "b", "U+00E9", "r", "y">>>>>>

\* MOJI_MAP, in the order of the dict (a key written twice keeps its place
\* and its last value)
MOJI_MAP == <<
    <<<<"U+00C3", " ">>, <<"U+00E0">>>>,
    <<<<"U+00C3", "U+00A2">>, <<"U+00E2">>>>,
    <<<<"U+00C3", "U+00A4">>, <<"U+00E4">>>>,
    <<<<"U+00C3", "U+00A6">>, <<"U+00E6">>>>,
    <<<<"U+00C3", "U+00A7">>, <<"U+00E7">>>>,
    <<<<"U+00C3", "U+00A9">>, <<"U+00E9">>>>,
    <<<<"U+00C3", "U+00A8">>, <<"U+00E8">>>>,
    <<<<"U+00C3", "U+00AA">>, <<"U+00EA">>>>,
    <<<<"U+00C3", "U+00AB">>, <<"U+00EB">>>>,
    <<<<"U+00C3", "U+00AF">>, <<"U+00EF">>>>,
    <<<<"U+00C3", "U+00AE">>, <<"U+00EE">>>>,
    <<<<"U+00C3", "U+00B4">>, <<"U+00F4">>>>,
    <<<<"U+00C3", "U+00B6">>, <<"U+00F6">>>>,
    <<<<"U+00C3", "U+00B9">>, <<"U+00F9">>>>,
    <<<<"U+00C3", "U+00BA">>, <<"U+00FA">>>>,
    <<<<"U+00C3", "U+00BB">>, <<"U+00FB">>>>,
    <<<<"U+00C3", "U+00BC">>, <<"U+00FC">>>>,
    <<<<"U+00C5", "U+201C">>, <<"U+0153">>>>,
    <<<<"U+00C3", "U+20AC">>, <<"U+00C0">>>>,
    <<<<"U+00C3", "U+201A">>, <<"U+00C2">>>>,
    <<<<"U+00C3", "U+201E">>, <<"U+00C4">>>>,
    <<<<"U+00C3", "U+2020">>, <<"U+00C6">>>>,
    <<<<"U+00C3", "U+2021">>, <<"U+00C7">>>>,
    <<<<"U+00C3", "U+2030">>, <<"U+00C9">>>>,
    <<<<"U+00C3", "U+02C6">>, <<"U+00C8">>>>,
    <<<<"U+00C3", "U+0160">>, <<"U+00CA">>>>,
    <<<<"U+00C3", "U+2039">>, <<"U+00CB">>>>,
    <<<<"U+00C3", "U+FFFD">>, <<"U+00CF">>>>,
    <<<<"U+00C3", "U+017D">>, <<"U+00CE">>>>,
    <<<<"U+00C3", "U+201D">>, <<"U+00D4">>>>,
    <<<<"U+00C3", "U+2013">>, <<"U+00D6">>>>,
    <<<<"U+00C3", "U+2122">>, <<"U+00D9">>>>,
    <<<<"U+00C3", "U+0161">>, <<"U+00DA">>>>,
    <<<<"U+00C3", "U+203A">>, <<"U+00DB">>>>,
    <<<<"U+00C3", "U+0153">>, <<"U+00DC">>>>,
    <<<<"U+00C5", "U+2019">>, <<"U+0152">>>>,
    <<<<"U+00C2", "U+00AB">>, <<"U+00AB">>>>,
    <<<<"U+00C2", "U+00BB">>, <<"U+00BB">>>>,
    <<<<"U+00C2", "U+00B7">>, <<"U+00B7">>>>,
    <<<<"U+00C2", "U+00B0">>, <<"U+00B0">>>>,
    <<<<"U+00C2">>, <<>>>>>>

\* ARTIFACTS, in the order of the list
ARTIFACTS == <<
    <<"U+00E2", "U+20AC", "U+00A2">>,
    <<"U+00E2", "U+20AC">>,
    <<"U+00C2", "U+00A4">>,
    <<"U+00C2", "U+00B8">>,
    <<"U+00C2", "U+00B7">>,
    <<"U+00C2", "U+00AB">>,
    <<"U+00C2", "U+00BB">>,
    <<"U+00C2">>>>

\* for bad, good in table.items(): text = text.replace(bad, good), for the
\* entries lo..hi in the order of the table; the first half is applied before
\* the second is begun
RECURSIVE replace_all(_, _, _, _)
replace_all(s, table, lo, hi) ==
    IF lo > hi THEN s
    ELSE IF lo = hi THEN Replace(s, table[lo][1], table[lo][2])
    ELSE LET mid == (lo + hi) \div 2
             left == replace_all(s, table, lo, mid)
         IN  IF Len(left) >= 0 THEN replace_all(left, table, mid + 1, hi) ELSE left

\* for tok in ARTIFACTS: text = text.replace(tok, ""), over the first k tokens
RECURSIVE remove_artifacts(_, _)
remove_artifacts(s, k) ==
    IF k = 0 THEN s
    ELSE Replace(remove_artifacts(s, k - 1), ARTIFACTS[k], <<>>)

french_fixes(s) ==
    replace_all(replace_all(s, SPECIAL_FR, 1, Len(SPECIAL_FR)), MOJI_MAP, 1, Len(MOJI_MAP))

french_and_artifacts(s) ==
    normalize_quotes(remove_artifacts(french_fixes(s), Len(ARTIFACTS)))

InitFrench ==
    /\ text \in {Flatten(ps) : ps \in SeqsUpTo(FrenchPieces, MaxFrenchPieces)}
    /\ out = text /\ out2 = <<>>
    /\ pc = "french_fixes"
    /\ log = [variants_to_double |-> 0, double_quotes_collapsed |-> 0]
    /\ lines = <<>> /\ line = <<>> /\ i = 0
    /\ protected_chapter_idx = 0 /\ to_delete = <<>> /\ visited = {}

\* the loops over SPECIAL_FR and MOJI_MAP
FrenchFixes ==
    /\ pc = "french_fixes"
    /\ out' = french_fixes(out)
    /\ pc' = "artifacts"
    /\ UNCHANGED <<text, lines, i, protected_chapter_idx, to_delete, visited,
                   line, log, out2>>

\* the loop over ARTIFACTS
RemoveArtifacts ==
    /\ pc = "artifacts"
    /\ out' = remove_artifacts(out, Len(ARTIFACTS))
    /\ pc' = "quotes"
    /\ UNCHANGED <<text, lines, i, protected_chapter_idx, to_delete, visited,
                   line, log, out2>>

\* the loop over QUOTE_VARIANTS and the collapse of runs of double quotes
QuoteNormalization ==
    /\ pc = "quotes"
    /\ LET mapped == map_quote_variants(out)
           r == collapse_quote_runs(mapped, 1)
       IN  /\ out' = r.t
           /\ log' = [log EXCEPT
                        !.variants_to_double =
                            Cardinality({k \in 1..Len(out) : out[k] \in QUOTE_VARIANTS}),
                        !.double_quotes_collapsed = r.n]
    /\ pc' = "done"
    /\ UNCHANGED <<text, lines, i, protected_chapter_idx, to_delete, visited,
                   line, out2>>

NextFrench == FrenchFixes \/ RemoveArtifacts \/ QuoteNormalization

SpecFrench == InitFrench /\ [][NextFrench]_vars

\* Quotation marks of the Unicode repertoire that are not the canonical mark:
\* curly, low, reversed, guillemet, angle, fullwidth, ornamental and
\* double-prime forms
QuotationVariants ==
    {"U+201C", "U+201D", "U+201E", "U+201F", "U+00AB", "U+00BB", "U+2039",
     "U+203A", "U+FF02", "U+275D", "U+275E", "U+301D", "U+301E", "U+301F",
     "U+2033", "U+2036"}

QuoteChars == {"\""} \cup QuotationVariants

\* C15: after french_and_artifacts no quotation-mark variant (curly, low,
\* guillemet, angle, fullwidth, ornamental, double prime) is left in the text,
\* and no two quote characters stand next to each other.
C15_QuotesCanonical ==
    pc = "done" =>
        /\ \A k \in 1..Len(out) : out[k] \notin QuotationVariants
        /\ \A k \in 1..(Len(out) - 1) :
               ~(out[k] \in QuoteChars /\ out[k + 1] \in QuoteChars)

(***************************************************************************)
(* _apply_french_utf8_latin1_fixes of Step1_ocr_cleanup_v11.py: the        *)
(* mojibake table applied inside the word tokens of the text.              *)
(***************************************************************************)

MaxRepairPieces == 4

\* U+00C3 U+00A9 is the mojibake of e-acute (U+00E9), U+00C3 followed by a
\* space that of a-grave
RepairPieces == {<<"U+00C3", "U+00A9">>, <<"U+00C3">>, <<"a">>, <<" ">>,
                 <<"'">>, <<"U+00E9">>}

\* mapping, in the order of the dict: <<bad, good>>
mapping == <<
    <<<<"U+00C3", "U+00A9">>, <<"U+00E9">>>>,
    <<<<"U+00C3", "U+00A8">>, <<"U+00E8">>>>,
    <<<<"U+00C3", "U+00AA">>, <<"U+00EA">>>>,
    <<<<"U+00C3", "U+00AB">>, <<"U+00EB">>>>,
    <<<<"U+00C3", " ">>, <<"U+00E0">>>>,
    <<<<"U+00C3", "U+00A2">>, <<"U+00E2">>>>,
    <<<<"U+00C3", "U+00A4">>, <<"U+00E4">>>>,
    <<<<"U+00C3", "U+00B9">>, <<"U+00F9">>>>,
    <<<<"U+00C3", "U+00BB">>, <<"U+00FB">>>>,
    <<<<"U+00C3", "U+00BC">>, <<"U+00FC">>>>,
    <<<<"U+00C3", "U+00AE">>, <<"U+00EE">>>>,
    <<<<"U+00C3", "U+00AF">>, <<"U+00EF">>>>,
    <<<<"U+00C3", "U+00B4">>, <<"U+00F4">>>>,
    <<<<"U+00C3", "U+00B6">>, <<"U+00F6">>>>,
    <<<<"U+00C3", "U+2021">>, <<"U+00C7">>>>,
    <<<<"U+00C3", "U+00A7">>, <<"U+00E7">>>>,
    <<<<"U+00C3", "U+2030">>, <<"U+00C9">>>>,
    <<<<"U+00C3", "U+02C6">>, <<"U+00C8">>>>,
    <<<<"U+00C3", "U+0160">>, <<"U+00CA">>>>,
    <<<<"U+00C3", "U+2039">>, <<"U+00CB">>>>,
    <<<<"U+00C3", "U+20AC">>, <<"U+00C0">>>>,
    <<<<"U+00C3", "U+201A">>, <<"U+00C2">>>>,
    <<<<"U+00C3", "U+201E">>, <<"U+00C4">>>>,
    <<<<"U+00C3", "U+2122">>, <<"U+00D9">>>>,
    <<<<"U+00C3", "U+203A">>, <<"U+00DB">>>>,
    <<<<"U+00C3", "U+0153">>, <<"U+00DC">>>>,
    <<<<"U+00C3", "U+017D">>, <<"U+00CE">>>>,
    <<<<"U+00C3", "U+008F">>, <<"U+00CF">>>>,
    <<<<"U+00C3", "U+201D">>, <<"U+00D4">>>>,
    <<<<"U+00C3", "U+2013">>, <<"U+00D6">>>>>>

\* the ranges \u00C0-\u00D6, \u00D8-\u00F6, \u00F8-\u00FF
Latin1Letter == {"U+00C0", "U+00C1", "U+00C2", "U+00C3", "U+00C4", "U+00C5", "U+00C6",
    "U+00C7", "U+00C8", "U+00C9", "U+00CA", "U+00CB", "U+00CC", "U+00CD",
    "U+00CE", "U+00CF", "U+00D0", "U+00D1", "U+00D2", "U+00D3", "U+00D4",
    "U+00D5", "U+00D6", "U+00D8", "U+00D9", "U+00DA", "U+00DB", "U+00DC",
    "U+00DD", "U+00DE", "U+00DF", "U+00E0", "U+00E1", "U+00E2", "U+00E3",
    "U+00E4", "U+00E5", "U+00E6", "U+00E7", "U+00E8", "U+00E9", "U+00EA",
    "U+00EB", "U+00EC", "U+00ED", "U+00EE", "U+00EF", "U+00F0", "U+00F1",
    "U+00F2", "U+00F3", "U+00F4", "U+00F5", "U+00F6", "U+00F8", "U+00F9",
    "U+00FA", "U+00FB", "U+00FC", "U+00FD", "U+00FE", "U+00FF"}

\* [A-Za-zÀ-ÖØ-öø-ÿ'’-]
TokenChar == Letter \cup Latin1Letter \cup {"'", "U+2019", "-"}

\* for k, v in mapping.items(): s = s.replace(k, v)
fix_word(s) == replace_all(s, mapping, 1, Len(mapping))

\* re.sub(r"[A-Za-z...'-]{2,}", fix_word, s[p..])
RECURSIVE sub_words(_, _)
sub_words(s, p) ==
    IF p > Len(s) THEN <<>>
    ELSE LET r == RunIn(s, p, TokenChar)
         IN  IF r >= 2
             THEN fix_word(Slice(s, p, p + r - 1)) \o sub_words(s, p + r)
             ELSE <<s[p]>> \o sub_words(s, p + 1)

apply_french_utf8_latin1_fixes(s) == sub_words(s, 1)

InitRepair ==
    /\ text \in {Flatten(ps) : ps \in SeqsUpTo(RepairPieces, MaxRepairPieces)}
    /\ out = text /\ out2 = <<>>
    /\ pc = "repair"
    /\ log = NoLog
    /\ lines = <<>> /\ line = <<>> /\ i = 0
    /\ protected_chapter_idx = 0 /\ to_delete = <<>> /\ visited = {}

ApplyFrenchFixes ==
    /\ pc = "repair"
    /\ out' = apply_french_utf8_latin1_fixes(out)
    /\ pc' = "done"
    /\ UNCHANGED <<text, lines, i, protected_chapter_idx, to_delete, visited,
                   line, log, out2>>

NextRepair == ApplyFrenchFixes

SpecRepair == InitRepair /\ [][NextRepair]_vars

\* the entry of the table whose corrupted sequence starts at p (0 if none)
CorruptedAt(s, p) ==
    IF \E k \in 1..Len(mapping) : StartsAt(s, p, mapping[k][1])
    THEN CHOOSE k \in 1..Len(mapping) : StartsAt(s, p, mapping[k][1])
    ELSE 0

\* the word characters: letters (accented ones included), digits, underscore
AnyWordChar == WordChar \cup Latin1Letter

\* the sequence of n characters at p has a word character right before it or
\* right after it
Embedded(s, p, n) ==
    \/ p > 1 /\ s[p - 1] \in AnyWordChar
    \/ p + n <= Len(s) /\ s[p + n] \in AnyWordChar

\* the text with every embedded corrupted sequence replaced by its character
\* and every standalone one kept
RECURSIVE ClaimedRepair(_, _)
ClaimedRepair(s, p) ==
    IF p > Len(s) THEN <<>>
    ELSE LET k == CorruptedAt(s, p)
         IN  IF k > 0 /\ Embedded(s, p, Len(mapping[k][1]))
             THEN mapping[k][2] \o ClaimedRepair(s, p + Len(mapping[k][1]))
             ELSE <<s[p]>> \o ClaimedRepair(s, p + 1)

\* C16: Encoding Repair replaces a corrupted sequence of the table that is
\* next to a word character by its correct character, and leaves a sequence
\* that is next to no word character as it is.
C16_EmbeddedRepaired == pc = "done" => out = ClaimedRepair(text, 1)

(***************************************************************************)
(* The chapter headings under the passes of Step2_formatting_v14.py: a     *)
(* text that has left the block remover goes through reflow and            *)
(* strip_footnote_numbers; each pass takes the text the pass before left.  *)
(***************************************************************************)

MaxHeadingPieces == 5

MaxStages == 2

\* "CHAPTER I", a digit (CHAPTER I2 has an alphanumeric numeral), a letter and
\* the line end
HeadingPieces == {<<"C", "H", "A", "P", "T", "E", "R", " ", "I">>, <<"2">>,
                  <<"a">>, <<"\n">>}

\* the three substitutions of the loop body on one line
strip_line(ln) ==
    sub_glued(sub_after_punct(sub_standalone(ln, 1).t, 1).t, 1).t

\* strip_footnote_numbers(s): the lines of the text, each stripped, joined
strip_footnote_numbers(s) ==
    LET ls == splitlines(s)
    IN  Join([k \in 1..Len(ls) |-> strip_line(ls[k])], <<"\n">>)

\* line holds the text a pass was given and out the text it returned
InitHeadings ==
    /\ text \in {Flatten(ps) : ps \in SeqsUpTo(HeadingPieces, MaxHeadingPieces)}
    /\ line = text /\ out = text /\ out2 = <<>>
    /\ i = 0
    /\ pc = "passes"
    /\ log = NoLog
    /\ lines = <<>>
    /\ protected_chapter_idx = 0 /\ to_delete = <<>> /\ visited = {}

\* text = reflow(text, log)
ReflowPass ==
    /\ pc = "passes" /\ i < MaxStages
    /\ line' = out
    /\ out' = reflow(out).t
    /\ i' = i + 1
    /\ UNCHANGED <<text, lines, pc, protected_chapter_idx, to_delete, visited,
                   log, out2>>

\* text = strip_footnote_numbers(text, log, money_terms)
StripPass ==
    /\ pc = "passes" /\ i < MaxStages
    /\ line' = out
    /\ out' = strip_footnote_numbers(out)
    /\ i' = i + 1
    /\ UNCHANGED <<text, lines, pc, protected_chapter_idx, to_delete, visited,
                   log, out2>>

NextHeadings == ReflowPass \/ StripPass

SpecHeadings == InitHeadings /\ [][NextHeadings]_vars

\* ^\s*CHAPTER\s+(?:[IVXLCDM]+|[A-Z0-9]+)\s*$ on a line without outer blanks:
\* the word, blanks, and a numeral of capitals and digits
IsHeadingLine(ln) ==
    /\ StartsAt(ln, 1, <<"C", "H", "A", "P", "T", "E", "R">>)
    /\ LET q == SkipSpace(ln, 8)
       IN  /\ q > 8 /\ q <= Len(ln)
           /\ \A k \in q..Len(ln) : ln[k] \in Upper \cup Digit

\* the lines of s, a text split at its line ends
TextLines(s) == {splitlines(s)[k] : k \in 1..Len(splitlines(s))}

\* C17: a CHAPTER heading that stands on a line of its own in the text a pass
\* is given stands on a line of its own, with the same numeral, in the text
\* the pass returns.
C17_HeadingsSurvive ==
    \A h \in TextLines(line) : IsHeadingLine(h) => h \in TextLines(out)

(***************************************************************************)
(* The three scripts run one after the other on a document: the calls each *)
(* main makes, in the order of its source.  lines holds the functions      *)
(* called so far, out the files written so far, and log the options of the *)
(* run.                                                                    *)
(***************************************************************************)

\* main of Step1_ocr_cleanup_v11.py
STEP1_MAIN == <<"remove_header_footer_blocks",
                "_apply_french_utf8_latin1_fixes",
                "_preserve_allcaps_chapter_and_first_volume_chapter">>

\* main of Step2_formatting_v14.py (the pre-pass is the pair of text.replace
\* calls made before the log is created)
STEP2_MAIN == <<"text.replace",
                "french_and_artifacts",
                "reflow",
                "dialogue_paragraphing",
                "merge_single_newlines",
                "collapse_mid_sentence_breaks",
                "fix_lone_quote_lines",
                "fix_leading_quote_space_opening_quote",
                "fix_leading_stray_quote_before_narrative",
                "split_adjacent_quotes_to_newline",
                "collapse_double_quotes_with_space",
                "_parse_money_terms",
                "normalize_double_single_quotes",
                "remove_superscripts",
                "strip_footnote_numbers",
                "fix_quote_apostrophe_artifacts",
                "normalize_comma_quote_spacing",
                "remove_quote_island_blocks",
                "split_adjacent_dialogue_turns",
                "normalize_intraline_spaces",
                "collapse_double_doublequotes">>

\* main of Step3_structuring_v1.py
STEP3_MAIN == <<"pass_normalize_inline_chapter_markers",
                "pass_insert_pagebreak_and_hr",
                "pass_break_before_first_allcaps_in_chapter">>

\* --log of Step1, --log of Step2, and whether Step3 got its two file names
InitPipeline ==
    /\ log \in [step1_log : BOOLEAN, step2_log : BOOLEAN, step3_args : BOOLEAN]
    /\ pc = "step1" /\ i = 0
    /\ lines = <<>> /\ out = <<>>
    /\ text = <<>> /\ line = <<>> /\ out2 = <<>>
    /\ protected_chapter_idx = 0 /\ to_delete = <<>> /\ visited = {}

\* the next call of a main whose calls are calls
call_next(calls) ==
    /\ i < Len(calls)
    /\ lines' = Append(lines, calls[i + 1])
    /\ i' = i + 1
    /\ UNCHANGED <<text, pc, protected_chapter_idx, to_delete, visited, line,
                   log, out, out2>>

\* the end of a main: the output file, the log file if asked for
write_files(calls, outfile, logfile, with_log, next) ==
    /\ i = Len(calls)
    /\ out' = out \o <<outfile>> \o (IF with_log THEN <<logfile>> ELSE <<>>)
    /\ pc' = next /\ i' = 0
    /\ UNCHANGED <<text, lines, protected_chapter_idx, to_delete, visited, line,
                   log, out2>>

Step1Call == pc = "step1" /\ call_next(STEP1_MAIN)

Step1Write ==
    /\ pc = "step1"
    /\ write_files(STEP1_MAIN, "step1.txt", "step1.json", log.step1_log, "step2")

Step2Call == pc = "step2" /\ call_next(STEP2_MAIN)

Step2Write ==
    /\ pc = "step2"
    /\ write_files(STEP2_MAIN, "step2.txt", "step2.json", log.step2_log, "step3")

\* if len(sys.argv) < 3: print the usage and exit
Step3Usage ==
    /\ pc = "step3" /\ ~log.step3_args
    /\ pc' = "done"
    /\ UNCHANGED <<text, lines, i, protected_chapter_idx, to_delete, visited,
                   line, log, out, out2>>

Step3Call == pc = "step3" /\ log.step3_args /\ call_next(STEP3_MAIN)

Step3Write ==
    /\ pc = "step3" /\ log.step3_args
    /\ write_files(STEP3_MAIN, "step3.txt", "", FALSE, "done")

NextPipeline ==
    \/ Step1Call \/ Step1Write
    \/ Step2Call \/ Step2Write
    \/ Step3Usage \/ Step3Call \/ Step3Write

SpecPipeline == InitPipeline /\ [][NextPipeline]_vars

\* The stages, numbered as the design orders them: 1 Encoding Repair,
\* 2 Structural Block Remover, 3 Numeric Artifact Stripper, 4 Quote
\* Normalizer, 5 Reflow Engine, 6 Dialogue Paragrapher, 7 Chapter Structurer.
\* StagesOf(f) is the set of stages function f carries out (empty for a
\* helper pass that belongs to none).
StagesOf(f) ==
    CASE f = "_apply_french_utf8_latin1_fixes" -> {1}
      [] f = "remove_header_footer_blocks" -> {2}
      [] f = "strip_footnote_numbers" -> {3}
      [] f = "french_and_artifacts" -> {1, 4}
      [] f \in {"fix_lone_quote_lines", "fix_leading_quote_space_opening_quote",
                "split_adjacent_quotes_to_newline"} -> {4}
      [] f = "reflow" -> {5}
      [] f = "dialogue_paragraphing" -> {6}
      [] f \in {"pass_normalize_inline_chapter_markers",
                "pass_insert_pagebreak_and_hr",
                "pass_break_before_first_allcaps_in_chapter"} -> {7}
      [] OTHER -> {}

\* the stages carried out by the first k calls
StagesDone(k) == UNION {StagesOf(lines[j]) : j \in 1..k}

\* C18: the stages run in the order 1..7: when a call carries out a stage,
\* every lower-numbered stage has been carried out (by an earlier call or by
\* this one), and no higher-numbered stage has been carried out before it.
C18_StagesInOrder ==
    \A k \in 1..Len(lines) : \A s \in StagesOf(lines[k]) :
        /\ \A t \in 1..(s - 1) : t \in StagesDone(k)
        /\ \A t \in StagesDone(k - 1) : t <= s

(***************************************************************************)
(* fix_lone_quote_lines on a text that holds none of its patterns.         *)
(***************************************************************************)

\* the text has no quote character and no blank line: no line can be a lone
\* quote and there is no run of line ends to collapse
PatternFree(s) ==
    /\ \A k \in 1..Len(s) : s[k] # "\""
    /\ \A k \in 1..(Len(s) - 1) : ~(s[k] = "\n" /\ s[k + 1] = "\n")

\* C19: the stage is total and leaves a text without its patterns unchanged:
\* from every state before the end a next step of fix_lone_quote_lines
\* exists (no fault), and a text with no quote character and no blank line
\* (the empty text included) is returned as it was given.
C19_TotalAndUnchanged ==
    /\ pc # "done" => ENABLED NextLoneQuote
    /\ (pc = "done" /\ PatternFree(text)) => out = text

(***************************************************************************)
(* strip_footnote_numbers on lines with a number between a money term or a *)
(* connecting word on either side.                                         *)
(***************************************************************************)

MaxCurrencyPieces == 5

CurrencyPieces == {<<"1">>, <<" ">>, <<"s", "o", "u">>, <<"o", "f">>, <<"a">>}

\* STOPWORDS_TINY of legacy/Step1_ocr_cleanup_v7.py
STOPWORDS_TINY ==
    {<<"a">>, <<"a", "n">>, <<"t", "h", "e">>, <<"o", "f">>, <<"t", "o">>,
     <<"i", "n">>, <<"o", "n">>, <<"a", "t">>, <<"f", "o", "r">>,
     <<"p", "e", "r">>, <<"d", "a">>, <<"d", "e">>, <<"d", "i">>, <<"d", "u">>,
     <<"l", "a">>, <<"l", "e">>, <<"l", "e", "s">>, <<"e", "l">>, <<"i", "l">>,
     <<"l", "o">>, <<"u", "n">>, <<"u", "n", "e">>}

\* CURRENCY_SYMBOLS of legacy/Step1_ocr_cleanup_v7.py
CURRENCY_SYMBOLS == {"U+00A3", "U+20AC", "$", "U+20A4", "U+20A3"}

InitCurrency ==
    /\ text \in {Flatten(ps) : ps \in SeqsUpTo(CurrencyPieces, MaxCurrencyPieces)}
    /\ line = text
    /\ pc = "standalone"
    /\ log = [standalone |-> 0, after_punct |-> 0, glued_to_word |-> 0]
    /\ lines = <<>> /\ i = 0
    /\ protected_chapter_idx = 0 /\ to_delete = <<>> /\ visited = {}
    /\ out = <<>> /\ out2 = <<>>

SpecCurrency == InitCurrency /\ [][NextFootnotes]_vars

\* the last position <= p of s that holds no whitespace (0 if none)
RECURSIVE SkipSpaceBack(_, _)
SkipSpaceBack(s, p) ==
    IF p >= 1 /\ s[p] \in Space THEN SkipSpaceBack(s, p - 1) ELSE p

\* the word w ends at position e of s and starts a token there
EndsAt(s, e, w) ==
    /\ e - Len(w) + 1 >= 1
    /\ StartsAt(s, e - Len(w) + 1, w)
    /\ (e - Len(w) = 0 \/ s[e - Len(w)] \notin WordChar)

\* the token right before the number at p, white space between them, is a
\* money term or a currency symbol
money_before(s, p) ==
    /\ p > 1 /\ s[p - 1] \in Space
    /\ LET e == SkipSpaceBack(s, p - 1)
       IN  e >= 1 /\ (\/ s[e] \in CURRENCY_SYMBOLS
                      \/ \E t \in money_terms : EndsAt(s, e, t))

\* a money term follows at q after white space and any number of connecting
\* words
RECURSIVE money_after_stopwords(_, _)
money_after_stopwords(s, q) ==
    \/ money_follow(s, q)
    \/ LET r == SkipSpace(s, q)
       IN  \E w \in STOPWORDS_TINY :
               /\ StartsAt(s, r, w)
               /\ r + Len(w) <= Len(s) /\ s[r + Len(w)] \in Space
               /\ money_after_stopwords(s, r + Len(w))

\* the runs of 1-3 digits of s[p..] with a money term right before them, or
\* after them behind connecting words only, in order
RECURSIVE BothSidesGuardedFrom(_, _)
BothSidesGuardedFrom(s, p) ==
    IF p > Len(s) THEN <<>>
    ELSE IF s[p] \in Digit
         THEN LET k == RunLen(s, p)
              IN  (IF k <= 3 /\ (money_before(s, p) \/ money_after_stopwords(s, p + k))
                   THEN <<Slice(s, p, p + k - 1)>> ELSE <<>>)
                      \o BothSidesGuardedFrom(s, p + k)
         ELSE BothSidesGuardedFrom(s, p + 1)

\* C20: a run of 1-3 digits is kept when the token right before it is a money
\* term or a currency symbol, and when a money term follows it after nothing
\* but connecting words of the stopword set: these runs of the line are, in
\* order, among the numbers of the output.
C20_CurrencyGuardBothSides ==
    pc = "done" => IsSubseq(BothSidesGuardedFrom(text, 1), DigitRuns(out))

(***************************************************************************)
(* strip_footnote_numbers on lines that hold ordinals ("21st"): the three  *)
(* passes of SpecFootnotes, on lines made of digits, ordinal suffixes in   *)
(* both cases, and the delimiters of the three contexts.                   *)
(***************************************************************************)
MaxOrdinalPieces == 4

OrdinalPieces ==
    {<<"1">>, <<"2", "1">>, <<"s", "t">>, <<"T", "H">>, <<" ">>, <<",">>,
     <<"a">>, <<".">>}

InitOrdinals ==
    /\ text \in {Flatten(ps) : ps \in SeqsUpTo(OrdinalPieces, MaxOrdinalPieces)}
    /\ line = text
    /\ pc = "standalone"
    /\ log = [standalone |-> 0, after_punct |-> 0, glued_to_word |-> 0]
    /\ lines = <<>> /\ i = 0
    /\ protected_chapter_idx = 0 /\ to_delete = <<>> /\ visited = {}
    /\ out = <<>> /\ out2 = <<>>

SpecOrdinals == InitOrdinals /\ [][NextFootnotes]_vars

\* (st|nd|rd|th) in any case stands at p of s
SuffixAt(s, p) ==
    /\ p + 1 <= Len(s)
    /\ <<s[p], s[p + 1]>> \in
           {<<a, b>> : a \in {"s", "S"}, b \in {"t", "T"}}
           \cup {<<a, b>> : a \in {"n", "N"}, b \in {"d", "D"}}
           \cup {<<a, b>> : a \in {"r", "R"}, b \in {"d", "D"}}
           \cup {<<a, b>> : a \in {"t", "T"}, b \in {"h", "H"}}

\* the ordinals of s[p..] in order: each maximal run of digits that an
\* ordinal suffix follows at once, with its suffix
RECURSIVE OrdinalsFrom(_, _)
OrdinalsFrom(s, p) ==
    IF p > Len(s) THEN <<>>
    ELSE IF s[p] \in Digit
         THEN LET k == RunLen(s, p)
              IN  (IF SuffixAt(s, p + k)
                   THEN <<Slice(s, p, p + k + 1)>> ELSE <<>>)
                      \o OrdinalsFrom(s, p + k)
         ELSE OrdinalsFrom(s, p + 1)

\* an ordinal of s starts at p, in one of the three contexts of the passes
OrdinalAt(s, p) == IsRunStart(s, p) /\ SuffixAt(s, p + RunLen(s, p))
OrdinalStandalone(s) ==
    \E p \in 1..Len(s) : OrdinalAt(s, p) /\ (p = 1 \/ s[p - 1] = " ")
OrdinalAfterPunct(s) ==
    \E p \in 2..Len(s) : OrdinalAt(s, p) /\ s[p - 1] = ","
OrdinalGlued(s) ==
    \E p \in 2..Len(s) : OrdinalAt(s, p) /\ s[p - 1] \in {"a", "."}

\* C21: no digit of a number that an ordinal suffix (st, nd, rd, th, in any
\* case) follows at once is deleted by strip_footnote_numbers, at the start
\* of the line or after a delimiter, after punctuation, or glued to a word or
\* a full stop: the ordinals of the output line are those of the input line,
\* in the same order, after each of the three passes.
C21_OrdinalsKept == OrdinalsFrom(line, 1) = OrdinalsFrom(text, 1)

\* a line with an ordinal in one of the three contexts, on which the passes
\* removed some other number
C21_Witness ==
    /\ pc = "done"
    /\ log.standalone + log.after_punct + log.glued_to_word > 0
    /\ OrdinalStandalone(text) \/ OrdinalAfterPunct(text) \/ OrdinalGlued(text)
    /\ OrdinalsFrom(out, 1) # <<>>

(***************************************************************************)
(* collapse_mid_sentence_breaks (Step2_formatting_v14.py).  The accented   *)
(* letters of the lowercase class are spelled by no input of the model.    *)
(***************************************************************************)
MaxMidPieces == 5

MidPieces == {<<"a">>, <<"b">>, <<".">>, <<"\n", "\n">>, <<" ">>, <<"B">>}

\* [^\.!\?;:)"\n]
mid_first == {".", "!", "?", ";", ":", ")", "\"", "\n"}

\* pattern_mid at p: ([^\.!\?;:)"\n])\s*\n\n\s*([a-z...]); the position of
\* group 2, or 0 for no match.  Both \s* also take line ends, so the white
\* space between the groups only has to hold two adjacent line ends.
pattern_mid(s, p) ==
    IF s[p] \in mid_first THEN 0
    ELSE LET r == SkipSpace(s, p + 1)
         IN  IF /\ r <= Len(s) /\ s[r] \in Lower
                /\ \E q \in (p + 1)..(r - 2) : s[q] = "\n" /\ s[q + 1] = "\n"
             THEN r ELSE 0

\* pattern_mid.subn(r'\1 \2', text) over s[p..]: matches do not overlap, the
\* scan goes on behind group 2
RECURSIVE subn_mid(_, _)
subn_mid(s, p) ==
    IF p > Len(s) THEN [t |-> <<>>, n |-> 0]
    ELSE LET r == pattern_mid(s, p)
         IN  IF r > 0
             THEN LET rest == subn_mid(s, r + 1)
                  IN  [t |-> <<s[p], " ", s[r]>> \o rest.t, n |-> 1 + rest.n]
             ELSE LET rest == subn_mid(s, p + 1)
                  IN  [t |-> <<s[p]>> \o rest.t, n |-> rest.n]

InitMid ==
    /\ text \in {Flatten(ps) : ps \in SeqsUpTo(MidPieces, MaxMidPieces)}
    /\ pc = "collapse"
    /\ log = [mid_sentence_breaks_collapsed |-> 0]
    /\ out = <<>>
    /\ line = <<>> /\ lines = <<>> /\ i = 0
    /\ protected_chapter_idx = 0 /\ to_delete = <<>> /\ visited = {}
    /\ out2 = <<>>

collapse_mid_sentence_breaks ==
    /\ pc = "collapse"
    /\ LET r == subn_mid(text, 1)
       IN  /\ out' = r.t
           /\ log' = [mid_sentence_breaks_collapsed |-> r.n]
    /\ pc' = "done"
    /\ UNCHANGED <<text, lines, i, protected_chapter_idx, to_delete, visited,
                   line, out2>>

NextMid == collapse_mid_sentence_breaks

SpecMid == InitMid /\ [][NextMid]_vars

\* a paragraph break stands at p of s between a character that ends no
\* sentence and a lowercase letter
MidBreakAt(s, p) ==
    /\ p >= 2 /\ p + 2 <= Len(s)
    /\ s[p - 1] \notin mid_first \cup Space
    /\ s[p] = "\n" /\ s[p + 1] = "\n"
    /\ s[p + 2] \in Lower

\* C22: after collapse_mid_sentence_breaks the text holds no paragraph break
\* between a character that is no sentence terminator and a following
\* lowercase letter, consecutive breaks around a one-character paragraph
\* included.
C22_NoMidSentenceBreak ==
    pc = "done" => \A p \in 1..Len(out) : ~MidBreakAt(out, p)

(***************************************************************************)
(* Rules B and C of dialogue_paragraphing, on the texts of SpecDialogue.   *)
(* Quotes pair up from the start of the text: quote 2k-1 opens span k and  *)
(* quote 2k closes it.                                                     *)
(***************************************************************************)
\* the white space right before and right after the k-th quote of s
WsBefore(s, k) ==
    LET q == QuotePositions(s)[k]
    IN  Slice(s, SkipSpaceBack(s, q - 1) + 1, q - 1)
WsAfter(s, k) ==
    LET q == QuotePositions(s)[k]
    IN  Slice(s, q + 1, SkipSpace(s, q + 1) - 1)

\* white space stands between a sentence-terminal mark and the k-th quote
AfterSentenceEnd(s, k) ==
    LET q == QuotePositions(s)[k]
        b == SkipSpaceBack(s, q - 1)
    IN  b >= 1 /\ b < q - 1 /\ s[b] \in Terminal

\* the k-th quote directly follows a terminal mark and white space and an
\* uppercase letter follow it
BeforeNarration(s, k) ==
    LET q == QuotePositions(s)[k]
        w == SkipSpace(s, q + 1)
    IN  q > 1 /\ s[q - 1] \in Terminal /\ w > q + 1 /\ w <= Len(s) /\ s[w] \in Upper

\* white space and an uppercase letter follow the k-th quote
BeforeUpper(s, k) ==
    LET q == QuotePositions(s)[k]
        w == SkipSpace(s, q + 1)
    IN  w > q + 1 /\ w <= Len(s) /\ s[w] \in Upper

\* C23 (Rule B): the white space between a sentence-terminal mark and a
\* following quote becomes a paragraph break exactly when that quote opens a
\* quoted span; before a quote that closes a span no break is inserted (a
\* break is there only if the input had it).
C23_RuleBOpeningOnly ==
    pc = "done" =>
        /\ Len(QuotePositions(out)) = Len(QuotePositions(text))
        /\ \A k \in 1..Len(QuotePositions(text)) :
               AfterSentenceEnd(text, k) =>
                   (HasBreak(WsBefore(out, k))
                        <=> (k % 2 = 1 \/ HasBreak(WsBefore(text, k))))

\* C24 (Rule C): wherever a closing quote that directly follows terminal
\* punctuation is followed by white space and an uppercase letter, the output
\* has a paragraph break between the quote and the letter; and the rule
\* fires only for closing quotes: between an opening quote and the text of
\* its own span no break is inserted.
C24_RuleCClosingOnly ==
    pc = "done" =>
        /\ Len(QuotePositions(out)) = Len(QuotePositions(text))
        /\ \A k \in 1..Len(QuotePositions(text)) :
               /\ (k % 2 = 0 /\ BeforeNarration(text, k))
                      => HasBreak(WsAfter(out, k))
               /\ (k % 2 = 1 /\ BeforeUpper(text, k) /\ HasBreak(WsAfter(out, k)))
                      => HasBreak(WsAfter(text, k))

(***************************************************************************)
(* Order of the MOJI_MAP entries in french_and_artifacts.  The loop of the *)
(* code takes the entries in the order of the dict; the entry numbered i   *)
(* is the one a different order would take first.                          *)
(***************************************************************************)
MaxOrderPieces == 3

OrderPieces ==
    {<<"U+00C3", "U+201A">>, <<"U+00C2">>, <<"U+00AB">>,
     <<"U+00C3", "U+00A9">>, <<"a">>}

InitOrder ==
    /\ text \in {Flatten(ps) : ps \in SeqsUpTo(OrderPieces, MaxOrderPieces)}
    /\ i \in 1..Len(MOJI_MAP)
    /\ out = text
    /\ pc = "mojibake"
    /\ log = NoLog
    /\ lines = <<>> /\ line = <<>> /\ out2 = <<>>
    /\ protected_chapter_idx = 0 /\ to_delete = <<>> /\ visited = {}

\* for bad, good in MOJI_MAP.items(): text = text.replace(bad, good)
MojibakeLoop ==
    /\ pc = "mojibake"
    /\ out' = replace_all(out, MOJI_MAP, 1, Len(MOJI_MAP))
    /\ pc' = "done"
    /\ UNCHANGED <<text, lines, i, protected_chapter_idx, to_delete, visited,
                   line, log, out2>>

NextOrder == MojibakeLoop

SpecOrder == InitOrder /\ [][NextOrder]_vars

\* the table with entry k taken first and the others in their order
MovedFirst(table, k) ==
    <<table[k]>> \o SubSeq(table, 1, k - 1) \o SubSeq(table, k + 1, Len(table))

\* a is a prefix of b
IsPrefix(a, b) == Len(a) <= Len(b) /\ SubSeq(b, 1, Len(a)) = a
\* a occurs in b
OccursIn(a, b) == \E p \in 1..(Len(b) - Len(a) + 1) : StartsAt(b, p, a)

\* no source of the table is a prefix of another source, and no target holds
\* a source
TableIndependent(table) ==
    \A j, k \in 1..Len(table) :
        /\ j # k => ~IsPrefix(table[j][1], table[k][1])
        /\ ~OccursIn(table[k][1], table[j][2])

\* C25: Encoding Repair is order-independent: the entries of the mojibake
\* table applied in another order (any entry taken first) give the result of
\* the loop, and no target is or holds the source of another entry, and no
\* source is a prefix of another source.
C25_OrderIndependent ==
    pc = "done" =>
        /\ out = replace_all(text, MovedFirst(MOJI_MAP, i), 1, Len(MOJI_MAP))
        /\ TableIndependent(MOJI_MAP)

(***************************************************************************)
(* remove_header_footer_blocks on documents with running prose that names  *)
(* a volume or a chapter, and with all-caps CHAPTER <X> headings.          *)
(***************************************************************************)
MaxProseLines == 4

ProseUniverse ==
    {"", "12", "Volume 1", "CHAPTER IV", "CHAPTER VOLUME", "He went home.",
     "he read the volume.", "the chapter ended."}

InitProse ==
    /\ lines \in SeqsUpTo(ProseUniverse, MaxProseLines)
    /\ protected_chapter_idx = find_first_chapter_heading_idx(lines)
    /\ i = 1
    /\ pc = "scan"
    /\ to_delete = <<>>
    /\ visited = {}
    /\ text = <<>> /\ line = <<>> /\ log = NoLog
    /\ out = <<>> /\ out2 = <<>>

SpecProse == InitProse /\ [][NextBlocks]_vars

\* a line of running prose: words with lowercase letters and a terminal
\* mark at the end
IsProse(s) == has_lowercase(s) /\ letter_then_terminal(s)

\* C26: every line deleted by remove_header_footer_blocks is non-body
\* content; a line of running prose is never deleted, whatever words it
\* holds and wherever it stands relative to a running head.
C26_ProseNeverDeleted ==
    pc = "done" => \A d \in Deleted : ~IsProse(lines[d])

\* C27: no deleted span, after expansion, absorption and merging, holds an
\* all-caps CHAPTER <X> heading (X an uppercase Roman numeral or an
\* uppercase alphanumeric token), the first occurrence or a later one.
C27_AllCapsHeadingsKept ==
    pc = "done" => \A d \in Deleted : ~allcaps_chapter_heading_re(lines[d])

(***************************************************************************)
(* pass_insert_pagebreak_and_hr (Step3_structuring_v1.py).                 *)
(***************************************************************************)
MaxPagePieces == 5

PagePieces == {<<"C", "H", "A", "P", "T", "E", "R", " ", "I">>, <<"V">>,
               <<"a">>, <<" ">>, <<"\n">>, <<"\f">>}

PAGE_BREAK == "\f"

\* a marker with no line end behind the form feed
pagebreak_alone == <<PAGE_BREAK>>

\* PAGE_BREAK + "\n"
pagebreak_marker == <<PAGE_BREAK, "\n">>

\* CHAPTER_PAT, (?m)^(CHAPTER)\s+([IVXLCDM]+)\b, at p: the position after the
\* match, 0 when none
chapter_pat_at(s, p) ==
    IF p = 1 \/ s[p - 1] = "\n" THEN chapter_marker(s, p) ELSE 0

\* the loop over CHAPTER_PAT.finditer(text), from position p on: the text up
\* to the match, the marker, the chapter line up to its line end; the rest
\* of the text after the last match
RECURSIVE insert_pagebreaks(_, _)
insert_pagebreaks(s, p) ==
    IF p > Len(s) THEN [t |-> <<>>, n |-> 0]
    ELSE LET e == chapter_pat_at(s, p)
         IN  IF e > 0
             THEN LET z == line_end(s, e)
                      rest == insert_pagebreaks(s, z)
                  IN  [t |-> pagebreak_marker \o Slice(s, p, z - 1) \o rest.t,
                       n |-> rest.n + 1]
             ELSE LET rest == insert_pagebreaks(s, p + 1)
                  IN  [t |-> <<s[p]>> \o rest.t, n |-> rest.n]

InitPage ==
    /\ text \in {Flatten(ps) : ps \in SeqsUpTo(PagePieces, MaxPagePieces)}
    /\ out = <<>> /\ out2 = <<>>
    /\ pc = "pagebreaks"
    /\ log = [pagebreaks |-> 0, hr_after_heading |-> 0]
    /\ lines = <<>> /\ line = <<>> /\ i = 0
    /\ protected_chapter_idx = 0 /\ to_delete = <<>> /\ visited = {}

pass_insert_pagebreak_and_hr ==
    /\ pc = "pagebreaks"
    /\ LET r == insert_pagebreaks(text, 1)
       IN  /\ out' = r.t
           /\ log' = [pagebreaks |-> r.n, hr_after_heading |-> 0]
    /\ pc' = "done"
    /\ UNCHANGED <<text, lines, i, protected_chapter_idx, to_delete, visited,
                   line, out2>>

NextPage == pass_insert_pagebreak_and_hr

SpecPage == InitPage /\ [][NextPage]_vars

\* the positions of s where a CHAPTER heading starts
HeadingStarts(s) == {q \in 1..Len(s) : chapter_pat_at(s, q) > 0}

\* where character q of the input stands in the output when two characters
\* are inserted before every heading
Shifted(s, q) == q + 2 * Cardinality({h \in HeadingStarts(s) : h <= q})

\* C28: pass_insert_pagebreak_and_hr inserts exactly one page-break marker
\* (form feed, line end) immediately before each CHAPTER heading and nowhere
\* else: the reported pagebreaks count is the number of markers inserted,
\* every heading starts a line of the output, and the output without the
\* inserted markers is the input text.
C28_PagebreakBeforeHeadings ==
    pc = "done" =>
        /\ log.pagebreaks = Cardinality(HeadingStarts(text))
        /\ Len(out) = Len(text) + 2 * log.pagebreaks
        /\ \A q \in 1..Len(text) : out[Shifted(text, q)] = text[q]
        /\ \A h \in HeadingStarts(text) :
               /\ out[Shifted(text, h) - 2] = PAGE_BREAK
               /\ out[Shifted(text, h) - 1] = "\n"
               /\ chapter_pat_at(out, Shifted(text, h)) > 0

\* a text with two headings, the second behind other text, both marked
C28_Witness ==
    /\ pc = "done"
    /\ log.pagebreaks = 2
    /\ \E h \in HeadingStarts(text) : h > 1 /\ text[h - 1] = "\n"
    /\ \E q \in 1..Len(text) : text[q] = "a"

(***************************************************************************)
(* The diagnostic log entry of dialogue_paragraphing.  The variable log of *)
(* SpecDialogue is the value the function stores under the key             *)
(* "dialogue_paragraphing": the three counters and nothing else.           *)
(***************************************************************************)
\* the example snippets of a log entry: its examples field, none when the
\* entry has no such field
ExamplesOf(entry) ==
    IF "examples" \in DOMAIN entry THEN entry.examples ELSE <<>>

\* C29: every rule that changed the text has recorded, besides its count, at
\* least one surrounding-text example of a change: a log entry with a
\* non-zero count holds one or more example snippets.
C29_ExamplesLogged ==
    (pc = "done"
        /\ log.between_quotes + log.before_leading_quote
               + log.after_quote_to_narration > 0)
        => ExamplesOf(log) # <<>>

(***************************************************************************)
(* main of Step1_ocr_cleanup_v11.py: remove_header_footer_blocks, then the *)
(* in-word mojibake fixes, then the preservation rule.  A text is held as  *)
(* the list of its lines, text.split("\n"); the documents are made of      *)
(* stripped representative lines, none of which holds a mojibake sequence, *)
(* so that the fixer, which rewrites inside a line only, leaves every line *)
(* as it is.                                                               *)
(***************************************************************************)
MaxStep1Lines == 4

Step1Universe ==
    {"", "12", "Volume 1", "CHAPTER IV", "CHAPTER VOLUME", "He went home.",
     "LONDON"}

\* r'(?m)^\s*CHAPTER\s+(?:[IVXLCDM]+|[A-Z0-9]+)\s*$'
chap_line_re(s) == s \in {"CHAPTER IV", "CHAPTER VOLUME"}
\* r'(?m)^\s*Volume\s+\S.*$'
volume_line_re(s) == s \in {"Volume 1"}

\* str.splitlines of a text held as text.split("\n")
splitlines_of(xs) ==
    IF xs # <<>> /\ xs[Len(xs)] = "" THEN SubSeq(xs, 1, Len(xs) - 1) ELSE xs

\* re.search(r'(?m)^\s*' + re.escape(ln) + r'\s*$', text)
line_present(xs, ln) == \E k \in 1..Len(xs) : xs[k] = ln

\* `i = 0; while i < len(lines) and lines[i].strip() == "": i += 1`
RECURSIVE first_nonblank(_, _)
first_nonblank(ls, k) ==
    IF k <= Len(ls) /\ ls[k] = "" THEN first_nonblank(ls, k + 1) ELSE k

\* lines[i:i] = ["", ln, ""]; text = "\n".join(lines)
insert_with_blanks(xs, ln) ==
    LET ls == splitlines_of(xs)
        k  == first_nonblank(ls, 1)
    IN  SubSeq(ls, 1, k - 1) \o <<"", ln, "">> \o SubSeq(ls, k, Len(ls))

\* chap_line_re.search(original_text): the index of the first all-caps
\* chapter line of the original, 0 for None
first_chap(orig) ==
    LET hits == {k \in 1..Len(orig) : chap_line_re(orig[k])}
    IN  IF hits = {} THEN 0 ELSE CHOOSE k \in hits : \A m \in hits : k <= m

\* m_vol: the index of the first Volume line of the original, 0 for None
first_vol(orig) ==
    LET hits == {k \in 1..Len(orig) : volume_line_re(orig[k])}
    IN  IF hits = {} THEN 0 ELSE CHOOSE k \in hits : \A m \in hits : k <= m

\* one half of the rule: line f of the original is put back when the text
\* holds no such line
preserve_line(xs, orig, f) ==
    IF f = 0 \/ line_present(xs, orig[f]) THEN xs
    ELSE insert_with_blanks(xs, orig[f])

\* _preserve_allcaps_chapter_and_first_volume_chapter(text, original_text)
preserve_allcaps_chapter_and_first_volume_chapter(xs, orig) ==
    preserve_line(preserve_line(xs, orig, first_chap(orig)), orig, first_vol(orig))

InitStep1 ==
    /\ lines \in SeqsUpTo(Step1Universe, MaxStep1Lines)
    /\ protected_chapter_idx = find_first_chapter_heading_idx(lines)
    /\ i = 1
    /\ pc = "scan"
    /\ to_delete = <<>>
    /\ visited = {}
    /\ text = <<>> /\ line = <<>> /\ log = NoLog
    /\ out = <<>> /\ out2 = <<>>

\* text = _apply_french_utf8_latin1_fixes(text);
\* text = _preserve_allcaps_chapter_and_first_volume_chapter(text, original_text)
FixAndPreserve ==
    /\ pc = "done"
    /\ out2' = preserve_allcaps_chapter_and_first_volume_chapter(out, lines)
    /\ pc' = "written"
    /\ UNCHANGED <<text, lines, i, protected_chapter_idx, to_delete, visited,
                   line, log, out>>

NextStep1 == NextBlocks \/ FixAndPreserve

SpecStep1 == InitStep1 /\ [][NextStep1]_vars

\* how often the line ln stands in xs
Occurrences(xs, ln) == Cardinality({k \in 1..Len(xs) : xs[k] = ln})

\* ln is the first non-blank line of xs and has a blank line on either side
AtFirstNonblank(xs, ln) ==
    LET j == first_nonblank(xs, 1)
    IN  /\ 1 < j /\ j < Len(xs)
        /\ xs[j] = ln /\ xs[j - 1] = "" /\ xs[j + 1] = ""

\* the three statements of C30 about line f of the original
Preserved(f) ==
    f # 0 =>
        /\ line_present(out2, lines[f])
        /\ f \in Deleted => AtFirstNonblank(out2, lines[f])
        /\ f \notin Deleted =>
               Occurrences(out2, lines[f]) = Occurrences(out, lines[f])

\* C30: after a Step1 run the output holds, on a line of its own, the first
\* all-caps CHAPTER <X> line of the input and the first line of the input
\* that starts with "Volume"; whenever block removal deleted one of them it
\* is put back, with blank lines around it, at the first non-blank position
\* of the document, and a line that is still there is not put in again.
C30_FirstLinesPreserved ==
    pc = "written" => Preserved(first_chap(lines)) /\ Preserved(first_vol(lines))

=============================================================================
